---- MODULE Spec2Model ----
(***************************************************************************)
(* A state-machine model of the TaskManager terminal application:          *)
(* libterm.py (terminal driver), libtui.py (widgets, TUIScreen,            *)
(* TUIApplication), lista_de_tarefas.py (TodoApp: navigation stack),       *)
(* libgerenciador.py (task manager) and the ten screens built on them.     *)
(*                                                                         *)
(* Specification Spec runs the whole application: construction, the run    *)
(* loop (one key read, dispatched and rendered per step), push/pop of      *)
(* screens with the REFRESH protocol, dialogs and shutdown.                *)
(* Specification SpecNav runs TUIScreen's focus manager on one screen      *)
(* whose widgets sit at arbitrary positions of a small grid.               *)
(***************************************************************************)
EXTENDS Integers, Sequences, FiniteSets, TLC

VARIABLES
    pc,              \* where the process is: "start", "running", "exited", "crashed"
    raw_mode,        \* Terminal.raw_mode
    term,            \* the tty and the files: settings restored, cursor, database written
    screen_stack,    \* TodoApp.screen_stack: sequence of screens, top last
    current_screen,  \* TodoApp.current_screen: position in screen_stack, 0 = None, -1 = a popped screen
    taskmanager,     \* TodoApp.taskmanager (GerenciadorTarefas)
    log              \* history of the last step: the deliveries of keys and the pops it made

vars == <<pc, raw_mode, term, screen_stack, current_screen, taskmanager, log>>

(***************************************************************************)
(* Bounds of the model.                                                    *)
(***************************************************************************)
MaxText == 1       \* the user types into a text field only while it holds fewer characters
MaxTaskId == 1     \* tasks are created only while _proximo_id_tarefa <= MaxTaskId
MaxListId == 1     \* lists are created only while _proximo_id_lista <= MaxListId
GridMax == 2       \* SpecNav: widget coordinates range over 0..GridMax

(***************************************************************************)
(* Terminal size (os.get_terminal_size) and the keys (libterm.Keys).       *)
(***************************************************************************)
Columns == 80
Lines == 24

UP == "UP_ARROW"
DOWN == "DOWN_ARROW"
LEFT == "LEFT_ARROW"
RIGHT == "RIGHT_ARROW"
DELETE == "DELETE"
ESC == "ESC"
TAB == "TAB"
SHIFT_TAB == "SHIFT_TAB"
ENTER == "ENTER"
BACKSPACE == "BACKSPACE"
SPACE == " "
REFRESH == "REFRESH"

\* the printable characters the user types
Chars == {"a"}
\* the keys read_key delivers to the run loop in this model
Keys == {UP, DOWN, LEFT, RIGHT, DELETE, ESC, TAB, SHIFT_TAB, ENTER, BACKSPACE} \cup Chars

Min(a, b) == IF a < b THEN a ELSE b
Max(a, b) == IF a > b THEN a ELSE b
Abs(a) == IF a < 0 THEN -a ELSE a

(***************************************************************************)
(* Strings are sequences of one-character strings.                         *)
(***************************************************************************)
\* str.lower() on one character
LowerChar(c) == CASE c = "A" -> "a" [] c = "B" -> "b" [] OTHER -> c
\* str.lower()
Lower(s) == [i \in 1..Len(s) |-> LowerChar(s[i])]

\* ord() of the characters of the model
Ord(c) == CASE c = SPACE -> 32 [] c = "A" -> 65 [] c = "B" -> 66
            [] c = "a" -> 97 [] c = "b" -> 98 [] OTHER -> 0

\* str.strip(): leading and trailing blanks removed
RECURSIVE LStrip(_)
LStrip(s) == IF s # <<>> /\ Head(s) = SPACE THEN LStrip(Tail(s)) ELSE s
RECURSIVE RStrip(_)
RStrip(s) == IF s # <<>> /\ s[Len(s)] = SPACE THEN RStrip(SubSeq(s, 1, Len(s) - 1)) ELSE s
Strip(s) == RStrip(LStrip(s))

\* the Python test `a in b` on strings
IsSubstring(a, b) ==
    \E i \in 0..(Len(b) - Len(a)) : SubSeq(b, i + 1, i + Len(a)) = a

\* the Python comparison a < b on strings
RECURSIVE StrLess(_, _)
StrLess(a, b) ==
    IF b = <<>> THEN FALSE
    ELSE IF a = <<>> THEN TRUE
    ELSE IF Head(a) # Head(b) THEN Ord(Head(a)) < Ord(Head(b))
    ELSE StrLess(Tail(a), Tail(b))

\* [x for x in s if P(x)]
RECURSIVE SelectIdx(_, _, _)
SelectIdx(s, P(_), i) ==
    IF i > Len(s) THEN <<>>
    ELSE (IF P(s[i]) THEN <<s[i]>> ELSE <<>>) \o SelectIdx(s, P, i + 1)
Filter(s, P(_)) == SelectIdx(s, P, 1)

\* the least member of a set of positions, 0 when the set is empty
LeastOrZero(I) == IF I = {} THEN 0 ELSE CHOOSE i \in I : \A j \in I : i <= j

\* the position of the first element of s that satisfies P, 0 when there is none
FirstIdx(s, P(_)) == LeastOrZero({i \in 1..Len(s) : P(s[i])})

(***************************************************************************)
(* libgerenciador.py: GerenciadorTarefas.  A task is [id, titulo,          *)
(* prioridade, repeticao, concluida]; a list is [id, titulo, tarefas].     *)
(* prioridade is the value of the PRIORIDADE (0..3), repeticao that of the *)
(* FREQUENCIA (0 = NENHUMA, 1..4).  Notes, tags and date of a task keep    *)
(* their defaults; in Spec so do priority and recurrence, as its user      *)
(* leaves those fields of the forms alone (see UserPresses).               *)
(***************************************************************************)
NENHUMA == 0

Tarefa(id, titulo, prioridade, repeticao) ==
    [id |-> id, titulo |-> titulo, prioridade |-> prioridade, repeticao |-> repeticao,
     concluida |-> FALSE]
ListaDeTarefas(id, titulo) == [id |-> id, titulo |-> titulo, tarefas |-> <<>>]

\* load_database with a database file holding one list "b" and no task
LoadedDatabase ==
    [listas |-> <<ListaDeTarefas(1, <<"b">>)>>,
     proximo_id_lista |-> 2,
     proximo_id_tarefa |-> 1]


\* next((l for l in self.listas if l.id == lista_id), None) as a position, 0 = None
ListaIdx(tm, lista_id) == FirstIdx(tm.listas, LAMBDA l : l.id = lista_id)

criar_lista_de_tarefas(tm, titulo) ==
    IF \E i \in 1..Len(tm.listas) : Lower(tm.listas[i].titulo) = Lower(titulo)
    THEN [tm |-> tm, ok |-> FALSE]
    ELSE [tm |-> [tm EXCEPT !.listas = Append(@, ListaDeTarefas(tm.proximo_id_lista, titulo)),
                            !.proximo_id_lista = @ + 1],
          ok |-> TRUE]

editar_lista_de_tarefas(tm, lista_id, novo_titulo) ==
    IF \E i \in 1..Len(tm.listas) :
          tm.listas[i].id # lista_id /\ Lower(tm.listas[i].titulo) = Lower(novo_titulo)
    THEN [tm |-> tm, ok |-> FALSE]
    ELSE LET i == ListaIdx(tm, lista_id) IN
         IF i # 0
         THEN [tm |-> [tm EXCEPT !.listas[i].titulo = novo_titulo], ok |-> TRUE]
         ELSE [tm |-> tm, ok |-> FALSE]

\* a bug to compare with: the last list is removed like any other
remover_lista_de_tarefas_unguarded(tm, lista_id) ==
    LET listas == Filter(tm.listas, LAMBDA l : l.id # lista_id)
    IN  [tm |-> [tm EXCEPT !.listas = listas], ok |-> Len(listas) < Len(tm.listas)]

remover_lista_de_tarefas(tm, lista_id) ==
    IF Len(tm.listas) <= 1 THEN [tm |-> tm, ok |-> FALSE]
    ELSE LET listas == Filter(tm.listas, LAMBDA l : l.id # lista_id)
         IN  [tm |-> [tm EXCEPT !.listas = listas], ok |-> Len(listas) < Len(tm.listas)]

\* a bug to compare with: the new task takes the lowest id no task holds
criar_tarefa_lowest_free_id(tm, lista_id, titulo, prioridade, repeticao) ==
    LET i == ListaIdx(tm, lista_id)
        used == {tm.listas[l].tarefas[t].id : <<l, t>> \in
                    {<<l, t>> \in (1..Len(tm.listas)) \X (1..tm.proximo_id_tarefa) :
                        t <= Len(tm.listas[l].tarefas)}}
        free == CHOOSE id \in 1..tm.proximo_id_tarefa :
                    id \notin used /\ \A k \in 1..(id - 1) : k \in used
    IN  IF i = 0 THEN tm
        ELSE [tm EXCEPT !.listas[i].tarefas =
                            Append(@, Tarefa(free, titulo, prioridade, repeticao)),
                        !.proximo_id_tarefa = @ + 1]

criar_tarefa(tm, lista_id, titulo, prioridade, repeticao) ==
    LET i == ListaIdx(tm, lista_id) IN
    IF i = 0 THEN tm
    ELSE [tm EXCEPT !.listas[i].tarefas =
                        Append(@, Tarefa(tm.proximo_id_tarefa, titulo, prioridade, repeticao)),
                    !.proximo_id_tarefa = @ + 1]

\* setattr on the task object: the task is found by its id wherever it is
editar_tarefa(tm, tarefa_id, titulo, prioridade, repeticao) ==
    [tm EXCEPT !.listas = [i \in 1..Len(@) |->
        [@[i] EXCEPT !.tarefas = [j \in 1..Len(@) |->
            IF @[j].id = tarefa_id
            THEN [@[j] EXCEPT !.titulo = titulo, !.prioridade = prioridade,
                              !.repeticao = repeticao]
            ELSE @[j]]]]]

mover_tarefa(tm, tarefa_id, lista_origem_id, lista_destino_id) ==
    LET o == ListaIdx(tm, lista_origem_id)
        d == ListaIdx(tm, lista_destino_id)
    IN  IF lista_origem_id = lista_destino_id \/ o = 0 \/ d = 0 THEN tm
        ELSE LET t == FirstIdx(tm.listas[o].tarefas, LAMBDA x : x.id = tarefa_id) IN
             IF t = 0 THEN tm
             ELSE [tm EXCEPT
                     !.listas[o].tarefas = Filter(@, LAMBDA x : x.id # tarefa_id),
                     !.listas[d].tarefas = Append(@, tm.listas[o].tarefas[t])]

remover_tarefa(tm, lista_id, tarefa_id) ==
    LET i == ListaIdx(tm, lista_id) IN
    IF i = 0 THEN tm
    ELSE [tm EXCEPT !.listas[i].tarefas = Filter(@, LAMBDA x : x.id # tarefa_id)]

remover_tarefas_concluidas(tm) ==
    [tm EXCEPT !.listas = [i \in 1..Len(@) |->
        [@[i] EXCEPT !.tarefas = Filter(@, LAMBDA x : ~x.concluida)]]]

\* a bug to compare with: the completed task keeps its recurrence
Complete_keeps_recurrence(tm, i, t) ==
    LET target_tarefa == tm.listas[i].tarefas[t]
    IN  IF target_tarefa.repeticao # NENHUMA
        THEN [tm EXCEPT !.listas[i].tarefas =
                            Append([@ EXCEPT ![t].concluida = TRUE],
                                   [target_tarefa EXCEPT !.id = tm.proximo_id_tarefa]),
                        !.proximo_id_tarefa = @ + 1]
        ELSE [tm EXCEPT !.listas[i].tarefas[t].concluida = TRUE]

\* the branch `if not target_tarefa.concluida` of toggle_tarefa_concluida:
\* nova_tarefa is a copy of the task with the next id and concluida = False
Complete(tm, i, t) ==
    LET target_tarefa == tm.listas[i].tarefas[t]
    IN  IF target_tarefa.repeticao # NENHUMA
        THEN [tm EXCEPT !.listas[i].tarefas =
                            Append([@ EXCEPT ![t].concluida = TRUE, ![t].repeticao = NENHUMA],
                                   [target_tarefa EXCEPT !.id = tm.proximo_id_tarefa]),
                        !.proximo_id_tarefa = @ + 1]
        ELSE [tm EXCEPT !.listas[i].tarefas[t].concluida = TRUE]

toggle_tarefa_concluida(tm, lista_id, tarefa_id) ==
    LET i == ListaIdx(tm, lista_id) IN
    IF i = 0 THEN tm
    ELSE LET t == FirstIdx(tm.listas[i].tarefas, LAMBDA x : x.id = tarefa_id) IN
         IF t = 0 THEN tm
         ELSE IF ~tm.listas[i].tarefas[t].concluida THEN Complete(tm, i, t)
         ELSE [tm EXCEPT !.listas[i].tarefas[t].concluida = FALSE]

\* the (tarefa, lista) pairs of one list, as <<task id, list id>>
PairsOf(l) == [j \in 1..Len(l.tarefas) |-> <<l.tarefas[j].id, l.id>>]

RECURSIVE AllPairs(_, _)
AllPairs(listas, i) ==
    IF i > Len(listas) THEN <<>> ELSE PairsOf(listas[i]) \o AllPairs(listas, i + 1)

TarefaOf(tm, pair) ==
    LET l == tm.listas[ListaIdx(tm, pair[2])]
    IN  l.tarefas[FirstIdx(l.tarefas, LAMBDA x : x.id = pair[1])]

TituloLista(tm, lista_id) == tm.listas[ListaIdx(tm, lista_id)].titulo

\* nota is "" and tags is [] for every task: only the title can hold the term
buscar_tarefas(tm, termo_busca) ==
    IF Lower(termo_busca) = <<>> THEN <<>>
    ELSE Filter(AllPairs(tm.listas, 1),
                LAMBDA p : IsSubstring(Lower(termo_busca), Lower(TarefaOf(tm, p).titulo)))

\* list.sort(key = title of the list), stable: insertion from the left
RECURSIVE InsertByTitle(_, _, _)
InsertByTitle(tm, sorted, p) ==
    IF sorted = <<>> THEN <<p>>
    ELSE IF StrLess(TituloLista(tm, p[2]), TituloLista(tm, Head(sorted)[2]))
         THEN <<p>> \o sorted
         ELSE <<Head(sorted)>> \o InsertByTitle(tm, Tail(sorted), p)
RECURSIVE SortByTitle(_, _, _)
SortByTitle(tm, pairs, i) ==
    IF i = 0 THEN <<>>
    ELSE InsertByTitle(tm, SortByTitle(tm, pairs, i - 1), pairs[i])

\* all tasks share date and priority, so both orderings reduce to the list's title
get_visualizacao_tarefas(tm, filtro_status, contexto_lista) ==
    LET brutas == IF contexto_lista # 0
                  THEN PairsOf(tm.listas[ListaIdx(tm, contexto_lista)])
                  ELSE AllPairs(tm.listas, 1)
        res == CASE filtro_status = "INCOMPLETAS" ->
                       Filter(brutas, LAMBDA p : ~TarefaOf(tm, p).concluida)
                 [] filtro_status = "COMPLETAS" ->
                       Filter(brutas, LAMBDA p : TarefaOf(tm, p).concluida)
                 [] OTHER -> brutas
    IN  SortByTitle(tm, res, Len(res))

\* max() of a non-empty set of ids
MaxId(ids) == CHOOSE m \in ids : \A id \in ids : id <= m

\* GerenciadorTarefas.__init__ and load_database.  data is <<>> when the
\* database file is missing or is not JSON, and <<listas>> when it holds listas
load_database(data) ==
    IF data = <<>>
    THEN [listas |-> <<ListaDeTarefas(1, <<"a">>)>>,
          proximo_id_lista |-> 2, proximo_id_tarefa |-> 1]
    ELSE LET listas == data[1]
             all_tasks == AllPairs(listas, 1)
         IN  IF listas = <<>>
             THEN [listas |-> <<>>, proximo_id_lista |-> 1, proximo_id_tarefa |-> 1]
             ELSE [listas |-> listas,
                   proximo_id_lista |-> MaxId({listas[i].id : i \in 1..Len(listas)}) + 1,
                   proximo_id_tarefa |->
                        (IF all_tasks = <<>> THEN 0
                         ELSE MaxId({all_tasks[i][1] : i \in 1..Len(all_tasks)})) + 1]

(***************************************************************************)
(* libtui.py: widgets.  One record shape serves every widget class; a      *)
(* class reads only its own fields.  Frames and labels of a screen are     *)
(* not focusable and receive no key: a screen keeps the widgets of its     *)
(* attributes (self.title_input, self.save_button, ...) in the record w.   *)
(***************************************************************************)
Widget(type, x, y) ==
    [type |-> type, x |-> x, y |-> y,
     is_focused |-> FALSE, is_focusable |-> TRUE,
     width |-> 0,            \* TextInput.width
     text |-> <<>>,          \* TextInput.text
     on_click |-> "None",    \* Button.on_click, by name
     being_edited |-> FALSE, \* DateInput, Selector: _being_edited
     index |-> 0,            \* Selector.selected_index, DateInput.focus_index, VerticalList._focus_index
     n |-> 0,                \* Selector: len(options)
     checked |-> FALSE,      \* Checkbox.checked
     items |-> <<>>,         \* VerticalList.children, by the object each label carries
     day |-> 0, month |-> 0, year |-> 0,   \* DateInput
     value |-> 0,            \* IntInput.value
     min |-> <<>>,           \* IntInput.min: <<>> is None, <<v>> the bound v
     max |-> <<>>,           \* IntInput.max
     scroll_offset |-> 0,    \* VerticalList.scroll_offset
     height |-> 0,           \* VerticalList.height
     shown |-> <<>>]         \* what the last render of the widget wrote: the text of a
                             \* DateInput, Selector or Checkbox, the is_focused of the
                             \* visible children of a VerticalList

Label(x, y) == [Widget("Label", x, y) EXCEPT !.is_focusable = FALSE]
Button(x, y, on_click) == [Widget("Button", x, y) EXCEPT !.on_click = on_click]
TextInput(x, y, width, initial_text) ==
    [Widget("TextInput", x, y) EXCEPT !.width = width, !.text = initial_text]
\* datetime.datetime.today() as (day, month, year)
Today == <<1, 1, 2024>>
\* date is None or a tuple (day, month, year)
DateInput(x, y, date) ==
    LET d == IF date = <<>> THEN Today ELSE date
    IN  [Widget("DateInput", x, y) EXCEPT !.day = d[1], !.month = d[2], !.year = d[3]]
IntInput(value, min, max, x, y) ==
    [Widget("IntInput", x, y) EXCEPT !.value = value, !.min = min, !.max = max]
\* a bug to compare with: the constructor takes the index as it is given
Selector_unclamped(n, selected_index, x, y) ==
    [Widget("Selector", x, y) EXCEPT !.n = n, !.index = selected_index]
Selector(n, selected_index, x, y) ==
    [Widget("Selector", x, y) EXCEPT !.n = n, !.index = Max(0, Min(selected_index, n - 1))]
Checkbox(x, y, checked) == [Widget("Checkbox", x, y) EXCEPT !.checked = checked]
VerticalList(x, y, height) == [Widget("VerticalList", x, y) EXCEPT !.height = height]

\* VerticalList.focus_index (the property's getter)
ListFocusIndex(w) == IF Len(w.items) = 0 THEN 0 ELSE Min(w.index, Len(w.items) - 1)

NoDialog == [type |-> "None", focus_index |-> 0]
ConfirmationDialog == [type |-> "ConfirmationDialog", focus_index |-> 0]
AlertDialog == [type |-> "AlertDialog", focus_index |-> 0]

(***************************************************************************)
(* libtui.py: TUIScreen.  A screen is a record; the fields a screen class  *)
(* does not have keep the values of EmptyScreen.                           *)
(***************************************************************************)
EmptyScreen ==
    [kind |-> "TUIScreen",
     w |-> [none |-> Label(0, 0)],
     children |-> <<>>,        \* only the base class reads it (get_focusable_widgets)
     focus_index |-> 0,
     dialog |-> NoDialog,
     contexto_lista |-> 0,     \* id of the ListaDeTarefas, 0 = None
     filtro_status |-> "TODAS",
     is_empty_view |-> FALSE,
     can_create_task |-> FALSE,
     resultados |-> <<>>,
     tarefa |-> 0,             \* id of the Tarefa shown or edited
     lista_mae |-> 0,
     lista_options |-> <<>>,   \* EditTaskScreen: ids of the lists, in the order of the selector
     error |-> ""]             \* error_label.text

\* get_focusable_widgets of the screen classes, as the names of the attributes
get_focusable_widgets(s) ==
    CASE s.kind = "ListSelectionScreen" ->
            <<"list_widget", "view_list_button", "view_all_button",
              "create_list_button", "edit_list_button", "search_button">>
      [] s.kind \in {"CreateListScreen", "EditListScreen"} ->
            <<"title_input", "save_button", "cancel_button">>
      [] s.kind = "FilterOptionsScreen" ->
            <<"filtro_data", "filtro_status", "ordenacao", "apply_button", "cancel_button">>
      [] s.kind = "TaskViewScreen" ->
            (IF ~s.is_empty_view THEN <<"list_widget">> ELSE <<>>)
            \o (IF s.can_create_task THEN <<"create_button">> ELSE <<>>)
            \o (IF ~s.is_empty_view
                THEN <<"details_button">>
                     \o (IF s.filtro_status = "COMPLETAS" THEN <<"delete_all_button">> ELSE <<>>)
                ELSE <<>>)
            \o <<"back_button">>
      [] s.kind = "CreateTaskScreen" ->
            <<"title_input", "notes_input", "tags_input",
              "priority_none", "priority_low", "priority_medium", "priority_high",
              "dateinput", "frequence_selector", "save_button", "cancel_button">>
      [] s.kind = "EditTaskScreen" ->
            <<"title_input", "notes_input", "tags_input",
              "priority_none", "priority_low", "priority_medium", "priority_high",
              "dateinput", "frequence_selector", "lista_selector",
              "save_button", "cancel_button">>
      [] s.kind = "TaskDetailScreen" -> <<"edit_button", "back_button">>
      [] s.kind = "SearchInputScreen" -> <<"search_input", "search_button", "cancel_button">>
      [] s.kind = "SearchResultsScreen" ->
            (IF ~s.is_empty_view THEN <<"list_widget", "details_button">> ELSE <<>>)
            \o <<"back_button">>
      [] OTHER -> Filter(s.children, LAMBDA name : s.w[name].is_focusable)

\* the element of the sequence f at position i, "None" for position 0
NameAt(f, i) == IF i = 0 THEN "None" ELSE f[i]

\* the first focused member of the tab order f
FocusedIn(s, f) == NameAt(f, FirstIdx(f, LAMBDA name : s.w[name].is_focused))

\* the focused widget's name, "None" when no widget of the tab order is focused
get_focused_widget(s) == FocusedIn(s, get_focusable_widgets(s))

\* a bug to compare with: the previously focused widget keeps its focus
set_focus_by_index_keeps_old(s, index) ==
    LET f == get_focusable_widgets(s)
        index_to_focus == Max(0, Min(index, Len(f) - 1))
    IN  IF f = <<>> THEN s
        ELSE [s EXCEPT !.w[f[index_to_focus + 1]].is_focused = TRUE,
                       !.focus_index = index_to_focus]

\* current_focused.is_focused = False, when a widget is focused
Unfocus(s, current_focused) ==
    IF current_focused # "None"
    THEN [s EXCEPT !.w[current_focused].is_focused = FALSE]
    ELSE s

\* widget_to_focus.is_focused = True and self.focus_index = index_to_focus
Focus(s, widget_to_focus, index_to_focus) ==
    [s EXCEPT !.w[widget_to_focus].is_focused = TRUE, !.focus_index = index_to_focus]

\* a bug to compare with: the index is taken modulo the length, not clamped
ClampIndex_wraps(index, n) == index % n

\* max(0, min(index, len(focusable_widgets) - 1))
ClampIndex(index, n) == Max(0, Min(index, n - 1))

\* indices are those of Python: the first widget of the tab order has index 0
set_focus_by_index(s, index) ==
    LET f == get_focusable_widgets(s)
        index_to_focus == ClampIndex(index, Len(f))
    IN  IF f = <<>> THEN s
        ELSE Focus(Unfocus(s, get_focused_widget(s)), f[index_to_focus + 1], index_to_focus)

\* a bug to compare with: the index runs past the end instead of wrapping
NewIndex_no_wrap(f, current, direction) ==
    IF current = "None"
    THEN (IF direction = 1 THEN 0 ELSE -1)
    ELSE FirstIdx(f, LAMBDA name : name = current) - 1 + direction

\* the index move_focus asks for: f is the tab order, current the focused widget
NewIndex(f, current, direction) ==
    IF current = "None"
    THEN (IF direction = 1 THEN 0 ELSE -1)
    ELSE (FirstIdx(f, LAMBDA name : name = current) - 1 + direction) % Len(f)

move_focus(s, direction) ==
    LET f == get_focusable_widgets(s)
    IN  IF f = <<>> THEN s
        ELSE set_focus_by_index(s, NewIndex(f, get_focused_widget(s), direction))

\* the candidates of _find_next_widget_in_direction: <<primary offset, perpendicular offset, name>>
Candidate(direction, dx, dy, name) ==
    CASE direction = DOWN /\ dy > 0 -> <<<<dy, dx, name>>>>
      [] direction = UP /\ dy < 0 -> <<<<dy, dx, name>>>>
      [] direction = RIGHT /\ dx > 0 -> <<<<dx, dy, name>>>>
      [] direction = LEFT /\ dx < 0 -> <<<<dx, dy, name>>>>
      [] OTHER -> <<>>

\* the loop over focusable, from position i on; current_widget is the focused widget's name
RECURSIVE CandidatesFrom(_, _, _, _, _)
CandidatesFrom(s, current_widget, focusable, direction, i) ==
    IF i > Len(focusable) THEN <<>>
    ELSE Candidate(direction,
                   s.w[focusable[i]].x - s.w[current_widget].x,
                   s.w[focusable[i]].y - s.w[current_widget].y,
                   focusable[i])
         \o CandidatesFrom(s, current_widget, focusable, direction, i + 1)

\* the widgets of the tab order f other than the widget current_widget
Others(f, current_widget) == Filter(f, LAMBDA name : name # current_widget)

Candidates(s, direction) ==
    LET current_widget == get_focused_widget(s)
    IN  CandidatesFrom(s, current_widget,
                       Others(get_focusable_widgets(s), current_widget), direction, 1)

\* a bug to compare with: the primary-axis distance ranks first
SortKey_primary_first(c) == <<Abs(c[1]), Abs(c[2])>>

\* key=lambda c: (abs(c[1]), abs(c[0])), the same for both axes
SortKey(c) == <<Abs(c[2]), Abs(c[1])>>

KeyLess(k1, k2) == k1[1] < k2[1] \/ (k1[1] = k2[1] /\ k1[2] < k2[2])

\* a bug to compare with: any other widget is a candidate, whatever its direction
\* candidates.sort(...) is stable: candidates[0] is the first candidate of minimal key
SortedFirst(c) ==
    IF c = <<>> THEN "None"
    ELSE c[FirstIdx(c, LAMBDA a : \A j \in 1..Len(c) : ~KeyLess(SortKey(c[j]), SortKey(a)))][3]

\* a bug to compare with: any other widget is a candidate, whatever its direction
find_next_widget_any_direction(s, direction) ==
    LET f == Others(get_focusable_widgets(s), get_focused_widget(s))
    IN  IF get_focused_widget(s) = "None" \/ f = <<>> THEN "None" ELSE f[1]

find_next_widget_in_direction(s, direction) ==
    IF get_focused_widget(s) = "None" THEN "None" ELSE SortedFirst(Candidates(s, direction))

(***************************************************************************)
(* The screens' constructors.  tm is app.taskmanager as the constructor    *)
(* reads it.                                                               *)
(***************************************************************************)
\* ListSelectionScreen.refresh_lists: one label per list, carrying the list
refresh_lists(s, tm) ==
    [s EXCEPT !.w.list_widget.items = [i \in 1..Len(tm.listas) |-> tm.listas[i].id]]

ListSelectionScreen(tm) ==
    LET s == [EmptyScreen EXCEPT
                !.kind = "ListSelectionScreen",
                !.w = [list_widget |-> VerticalList(3, 3, Lines - 8),
                       view_list_button |-> Button(3, Lines - 5, "view_selected_list_tasks"),
                       view_all_button |-> Button(17, Lines - 5, "view_all_tasks"),
                       create_list_button |-> Button(31, Lines - 5, "create_new_list"),
                       edit_list_button |-> Button(47, Lines - 5, "edit_selected_list"),
                       search_button |-> Button(64, Lines - 5, "search_tasks")]]
    IN  set_focus_by_index(refresh_lists(s, tm), 0)

CreateListScreen ==
    LET s == [EmptyScreen EXCEPT
                !.kind = "CreateListScreen",
                !.w = [title_input |-> TextInput(4, 4, Columns - 8, <<>>),
                       save_button |-> Button(4, Lines - 5, "save_list"),
                       cancel_button |-> Button(15, Lines - 5, "pop_screen_stack")]]
    IN  set_focus_by_index(s, 0)

EditListScreen(tm, lista_id) ==
    LET s == [EmptyScreen EXCEPT
                !.kind = "EditListScreen",
                !.lista_mae = lista_id,
                !.w = [title_input |-> TextInput(4, 4, Columns - 8, TituloLista(tm, lista_id)),
                       save_button |-> Button(4, Lines - 5, "save_list"),
                       cancel_button |-> Button(15, Lines - 5, "pop_screen_stack")]]
    IN  set_focus_by_index(s, 0)

FilterOptionsScreen(contexto_lista) ==
    LET s == [EmptyScreen EXCEPT
                !.kind = "FilterOptionsScreen",
                !.contexto_lista = contexto_lista,
                !.w = [filtro_data |-> Selector(3, 0, 4, 4),
                       filtro_status |-> Selector(3, 0, 4, 7),
                       ordenacao |-> Selector(2, 0, 4, 10),
                       apply_button |-> Button(4, Lines - 5, "apply_filters"),
                       cancel_button |-> Button(19, Lines - 5, "pop_screen_stack")]]
    IN  set_focus_by_index(s, 0)

\* map_status of FilterOptionsScreen.apply_filters, by the selector's index
MapStatus(index) ==
    CASE index = 0 -> "TODAS" [] index = 1 -> "INCOMPLETAS" [] OTHER -> "COMPLETAS"

\* Button.width = len(text) + 4 of the action buttons of the two task lists
WidthCriarTarefa == 16
WidthDetalhes == 12
WidthApagarTodas == 16

\* TaskViewScreen._setup_ui: the widgets are built anew; an attribute that is not
\* rebuilt (details_button of a view that became empty) keeps its old widget
setup_ui(s) ==
    LET empty == s.resultados = <<>>
        can_create == s.contexto_lista # 0
        del == ~empty /\ s.filtro_status = "COMPLETAS"
        x_create == 3
        x_details == IF can_create THEN x_create + WidthCriarTarefa + 1 ELSE 3
        x_delete == x_details + WidthDetalhes + 1
        x_back == IF del THEN x_delete + WidthApagarTodas + 1
                  ELSE IF ~empty THEN x_delete
                  ELSE IF can_create THEN x_create + WidthCriarTarefa + 1
                  ELSE 3
        lst == [list_widget |-> [VerticalList(3, 3, Lines - 8) EXCEPT
                                    !.items = IF empty THEN <<>> ELSE s.resultados]]
        crt == IF can_create
               THEN [create_button |-> Button(x_create, Lines - 5, "push_create_task_screen")]
               ELSE <<>>
        det == IF ~empty
               THEN [details_button |-> Button(x_details, Lines - 5, "open_task_details")]
               ELSE <<>>
        dla == IF del
               THEN [delete_all_button |->
                        Button(x_delete, Lines - 5, "confirm_delete_all_completed")]
               ELSE <<>>
        bck == [back_button |-> Button(x_back, Lines - 5, "pop_screen_stack")]
        s1 == [s EXCEPT !.is_empty_view = empty,
                        !.can_create_task = can_create,
                        !.w = lst @@ crt @@ det @@ dla @@ bck @@ s.w]
    IN  set_focus_by_index(s1, 0)

\* TaskViewScreen.refresh_tasks
refresh_tasks(s, tm) ==
    setup_ui([s EXCEPT !.resultados =
                get_visualizacao_tarefas(tm, s.filtro_status, s.contexto_lista)])

TaskViewScreen(tm, filtro_status, contexto_lista) ==
    refresh_tasks([EmptyScreen EXCEPT !.kind = "TaskViewScreen",
                                      !.w = <<>>,
                                      !.filtro_status = filtro_status,
                                      !.contexto_lista = contexto_lista], tm)

\* the widgets the create-task and the edit-task form share
FormWidgets(titulo, y_buttons) ==
    [title_input |-> TextInput(4, 4, Columns - 8, titulo),
     notes_input |-> TextInput(4, 6, Columns - 8, <<>>),
     tags_input |-> TextInput(4, 8, Columns - 8, <<>>),
     priority_none |-> Checkbox(4, 11, TRUE),
     priority_low |-> Checkbox(16, 11, FALSE),
     priority_medium |-> Checkbox(27, 11, FALSE),
     priority_high |-> Checkbox(38, 11, FALSE),
     dateinput |-> DateInput(4, 13, <<>>),
     frequence_selector |-> Selector(5, 0, 4, 15),
     save_button |-> Button(4, y_buttons, "save_task"),
     cancel_button |-> Button(15, y_buttons, "pop_screen_stack")]

\* get_task_priority of the two task forms
get_task_priority(s) ==
    IF s.w.priority_none.checked THEN 0
    ELSE IF s.w.priority_low.checked THEN 1
    ELSE IF s.w.priority_medium.checked THEN 2
    ELSE IF s.w.priority_high.checked THEN 3
    ELSE 0

\* get_task_frequency of the two task forms: the options of the selector are
\* the FREQUENCIA in the order of their values
get_task_frequency(s) == s.w.frequence_selector.index

CreateTaskScreen(lista_id) ==
    LET s == [EmptyScreen EXCEPT
                !.kind = "CreateTaskScreen",
                !.lista_mae = lista_id,
                !.w = [FormWidgets(<<>>, 18) EXCEPT !.cancel_button.on_click = "cancel"]]
    IN  set_focus_by_index(s, 0)

TaskDetailScreen(data) ==
    LET s == [EmptyScreen EXCEPT
                !.kind = "TaskDetailScreen",
                !.tarefa = data[1],
                !.lista_mae = data[2],
                !.w = [edit_button |-> Button(4, Lines - 5, "edit_task"),
                       back_button |-> Button(15, Lines - 5, "pop_screen_stack")]]
    IN  set_focus_by_index(s, 0)

\* lista_options maps the titles to the lists; the selector shows them in that order
EditTaskScreen(tm, data) ==
    LET ids == [i \in 1..Len(tm.listas) |-> tm.listas[i].id]
        cur == FirstIdx(ids, LAMBDA id : id = data[2]) - 1
        s == [EmptyScreen EXCEPT
                !.kind = "EditTaskScreen",
                !.tarefa = data[1],
                !.lista_mae = data[2],
                !.lista_options = ids,
                !.w = ("lista_selector" :> Selector(Len(ids), cur, 4, 17))
                      @@ [FormWidgets(TarefaOf(tm, data).titulo, 19) EXCEPT
                            !.priority_none.checked = TarefaOf(tm, data).prioridade = 0,
                            !.priority_low.checked = TarefaOf(tm, data).prioridade = 1,
                            !.priority_medium.checked = TarefaOf(tm, data).prioridade = 2,
                            !.priority_high.checked = TarefaOf(tm, data).prioridade = 3,
                            !.frequence_selector =
                                Selector(5, TarefaOf(tm, data).repeticao, 4, 15),
                            !.save_button.on_click = "save_changes"]]
    IN  set_focus_by_index(s, 0)

SearchInputScreen ==
    LET s == [EmptyScreen EXCEPT
                !.kind = "SearchInputScreen",
                !.w = [search_input |-> TextInput(4, 5, Columns - 8, <<>>),
                       search_button |-> Button(4, Lines - 5, "perform_search"),
                       cancel_button |-> Button(15, Lines - 5, "pop_screen_stack")]]
    IN  set_focus_by_index(s, 0)

\* SearchResultsScreen.refresh_list_ui
refresh_list_ui(s) == [s EXCEPT !.w.list_widget.items = s.resultados]

SearchResultsScreen(resultados) ==
    LET empty == resultados = <<>>
        s == [EmptyScreen EXCEPT
                !.kind = "SearchResultsScreen",
                !.resultados = resultados,
                !.is_empty_view = empty,
                !.w = (IF ~empty
                       THEN [details_button |-> Button(3, Lines - 5, "open_task_details")]
                       ELSE <<>>)
                      @@ [list_widget |-> VerticalList(3, 3, Lines - 8),
                          back_button |-> Button(IF empty THEN 3 ELSE 3 + WidthDetalhes + 1,
                                                 Lines - 5, "pop_screen_stack")]]
    IN  set_focus_by_index(IF empty THEN s ELSE refresh_list_ui(s), 0)

(***************************************************************************)
(* The application as one value: st bundles the variables, so that a       *)
(* handler is an operator from st to st.  st.env holds what the            *)
(* environment decides during the step (whether writing the database       *)
(* raises).  A raised exception or exit() is st.pc # "running": the        *)
(* statements that follow it in the code are skipped.                      *)
(***************************************************************************)
State(env) ==
    [pc |-> pc, raw_mode |-> raw_mode, term |-> term, screen_stack |-> screen_stack,
     current_screen |-> current_screen, taskmanager |-> taskmanager, log |-> log,
     env |-> env]

\* the active screen: every key is delivered to the top of the stack
Top(st) == st.screen_stack[Len(st.screen_stack)]
SetTop(st, s) == [st EXCEPT !.screen_stack[Len(st.screen_stack)] = s]

\* the history of one step
EmptyLog ==
    [deliveries |-> <<>>, pops |-> <<>>, pop_empty |-> FALSE, quit |-> 0,
     key |-> "", focus |-> "",   \* SpecNav: the key of the step and the widget focused before it
     index |-> 0,                \* SpecFocus: the index or direction the step was called with
                                 \* SpecWidgets: the day, value or selected index before the step
     read |-> <<>>,              \* SpecKeys: what read_key returned
                                 \* SpecLists, SpecTasks: what the call of the manager returned
     before |-> <<>>,            \* SpecKeys: the bytes waiting when read_key was called
     raised |-> FALSE,           \* SpecKeys: a continuation read raised a read error
     renders |-> <<>>,           \* the screens rendered, by their place in the stack
     drawn |-> <<>>,             \* what the render passes drew, in the order of drawing
     confirms |-> 0,             \* the calls of a dialog's on_confirm
     cancels |-> 0,              \* the calls of a dialog's on_cancel
     calls |-> <<>>,             \* the on_click callbacks of buttons called, by name
     args |-> <<>>,              \* SpecTasks, SpecPush: the arguments of the call
     assigned |-> {}]            \* SpecTasks: every task id in use at some time since
                                 \* the database was loaded

\* one delivery of a key to a screen, as the screen's process_input is entered
Delivery(st, key) ==
    [depth |-> Len(st.screen_stack),
     refresh |-> key = REFRESH,
     dialog |-> Top(st).dialog.type # "None",  \* a dialog is hosted as the key arrives
     to_dialog |-> FALSE,    \* the dialog's process_input was called
     offered |-> FALSE,      \* the focused widget's process_input was called
     consumed |-> FALSE,     \* what the focused widget reported
     nav |-> "none",         \* default navigation executed: "dir", "tab", "esc"
     handled |-> "none"]     \* the screen's own handling: "refresh", "shortcut"

Deliver(st, d) == [st EXCEPT !.log.deliveries = Append(@, d)]

(***************************************************************************)
(* libterm.py: the terminal.  term.restores counts the tcsetattr calls     *)
(* that put the original settings back.                                    *)
(***************************************************************************)
InitialTerm ==
    [restores |-> 0, cursor_shown |-> TRUE, saved |-> FALSE,
     stdin |-> <<>>,           \* the bytes waiting on standard input
     nonblocking |-> FALSE]    \* O_NONBLOCK of standard input

enable_raw_mode(st) == [st EXCEPT !.raw_mode = TRUE]

disable_raw_mode(st) == [st EXCEPT !.raw_mode = FALSE, !.term.restores = @ + 1]

\* a bug to compare with: the database is not written
save_database_skipped(st) == st

\* open(path, 'w') and json.dump: raise when the environment says so
save_database(st) ==
    IF st.env.save_fails THEN [st EXCEPT !.pc = "crashed"]
    ELSE [st EXCEPT !.term.saved = TRUE]

\* a bug to compare with: the cleanup runs but the process goes on
quit_app_returns(st) ==
    LET s1 == [st EXCEPT !.log.quit = @ + 1, !.term.cursor_shown = TRUE]
        s2 == save_database(s1)
    IN  IF s2.pc = "running" THEN disable_raw_mode(s2) ELSE s2

quit_app(st) ==
    LET s1 == [st EXCEPT !.log.quit = @ + 1, !.term.cursor_shown = TRUE]
        s2 == save_database(s1)
        s3 == IF s2.pc = "running" THEN disable_raw_mode(s2) ELSE s2
    IN  IF s3.pc = "running" THEN [s3 EXCEPT !.pc = "exited"] ELSE s3

(***************************************************************************)
(* lista_de_tarefas.py: TodoApp.  The payload of a push is                 *)
(* [type, value], type being the Python type of data.                      *)
(***************************************************************************)
NoData == [type |-> "None", value |-> 0]
Data(type, value) == [type |-> type, value |-> value]

\* a bug to compare with: the new screen is appended but not made active
append_new_screen_not_active(st, new_screen) ==
    IF new_screen # <<>>
    THEN [st EXCEPT !.screen_stack = Append(@, new_screen[1])]
    ELSE st

\* self.screen_stack.append(new_screen) and self.current_screen = new_screen,
\* when a screen was built (new_screen is <<screen>>, or <<>> for None)
append_new_screen(st, new_screen) ==
    IF new_screen # <<>>
    THEN [st EXCEPT !.screen_stack = Append(@, new_screen[1]),
                    !.current_screen = Len(st.screen_stack) + 1]
    ELSE st

\* isinstance(data, ...) of push_screen_stack
isinstance(data, type) == data.type = type

\* data.get(key): None (0) for a dict without the key
DictGet(data, key) == IF key \in DOMAIN data.value THEN data.value[key] ELSE 0

\* the branch of screen_type raises: data.get of a payload that is neither
\* None nor a dict (AttributeError), data['...'] of a dict without the key
\* (KeyError), len(None) in SearchResultsScreen for a dict without
\* 'resultados' (TypeError)
PayloadRaises(screen_type, data) ==
    CASE screen_type = "FILTER_OPTIONS" -> data.type \notin {"None", "dict"}
      [] screen_type = "TASK_VIEW" ->
            /\ isinstance(data, "dict")
            /\ ~({"filtro_status", "contexto_lista"} \subseteq DOMAIN data.value)
      [] screen_type = "SEARCH_RESULTS" ->
            isinstance(data, "dict") /\ "resultados" \notin DOMAIN data.value
      [] OTHER -> FALSE

\* a bug to compare with: CREATETASK builds its screen from any payload
new_screen_createtask_unchecked(st, screen_type, data) ==
    IF screen_type = "CREATETASK" THEN <<CreateTaskScreen(data.value)>> ELSE <<>>

\* new_screen of push_screen_stack: <<screen>>, or <<>> for None
new_screen(st, screen_type, data) ==
    LET tm == st.taskmanager
    IN  CASE screen_type = "LIST_SELECTION" -> <<ListSelectionScreen(tm)>>
          [] screen_type = "CREATELIST" -> <<CreateListScreen>>
          [] screen_type = "SEARCH_INPUT" -> <<SearchInputScreen>>
          [] screen_type = "EDIT_LIST" ->
                IF isinstance(data, "ListaDeTarefas")
                THEN <<EditListScreen(tm, data.value)>> ELSE <<>>
          [] screen_type = "FILTER_OPTIONS" ->
                <<FilterOptionsScreen(IF data.type = "None" THEN 0
                                      ELSE DictGet(data, "contexto_lista"))>>
          [] screen_type = "TASK_VIEW" ->
                IF isinstance(data, "dict")
                THEN <<TaskViewScreen(tm, data.value.filtro_status,
                                      data.value.contexto_lista)>>
                ELSE <<>>
          [] screen_type = "CREATETASK" ->
                IF isinstance(data, "ListaDeTarefas")
                THEN <<CreateTaskScreen(data.value)>> ELSE <<>>
          [] screen_type = "TASK_DETAIL" ->
                IF isinstance(data, "tuple") THEN <<TaskDetailScreen(data.value)>> ELSE <<>>
          [] screen_type = "EDIT_TASK" ->
                IF isinstance(data, "tuple") THEN <<EditTaskScreen(tm, data.value)>> ELSE <<>>
          [] screen_type = "SEARCH_RESULTS" ->
                IF isinstance(data, "dict")
                THEN <<SearchResultsScreen(data.value.resultados)>> ELSE <<>>
          [] OTHER -> <<>>

push_screen_stack(st, screen_type, data) ==
    IF PayloadRaises(screen_type, data)
    THEN [st EXCEPT !.pc = "crashed"]
    ELSE append_new_screen(st, new_screen(st, screen_type, data))

RECURSIVE process_input(_, _)

\* the REFRESH signals delivered so far in this step to the screen at `depth`
Refreshes(st, depth) ==
    LET IsRefresh(d) == d.refresh /\ d.depth = depth
    IN  Len(Filter(st.log.deliveries, IsRefresh))

\* one invocation of pop_screen_stack is recorded as it returns: the depth
\* before (in st) and after (in returned), the kind of the screen it exposed
\* and the REFRESH signals it made that screen receive
PopReturns(st, returned, exposed) ==
    LET before == Len(st.screen_stack)
    IN  [returned EXCEPT !.log.pops =
            Append(@, [before |-> before, after |-> Len(returned.screen_stack),
                       exposed |-> exposed,
                       refreshes |-> Refreshes(returned, before - 1)
                                     - Refreshes(st, before - 1)])]

pop_screen_stack(st) ==
    LET before == Len(st.screen_stack)
        popped == [st EXCEPT !.screen_stack = SubSeq(@, 1, before - 1)]
    IN  IF before = 0
        THEN [st EXCEPT !.pc = "crashed", !.log.pop_empty = TRUE]
        ELSE IF popped.screen_stack = <<>>
        THEN PopReturns(st, quit_app([popped EXCEPT !.current_screen = -1]), "None")
        ELSE PopReturns(st,
                        process_input([popped EXCEPT !.current_screen = before - 1], REFRESH),
                        Top(popped).kind)

(***************************************************************************)
(* The callbacks of the screens (the on_click of their buttons and the     *)
(* callbacks of their dialogs).  self is the active screen.                *)
(***************************************************************************)
\* ListSelectionScreen.get_selected_list_obj: the id of the list, 0 = None
get_selected_list_obj(s) ==
    LET l == s.w.list_widget
    IN  IF l.items = <<>> THEN 0 ELSE l.items[ListFocusIndex(l) + 1]

\* get_selected_result of the two task lists: <<task id, list id>>, <<0, 0>> = (None, None)
get_selected_result(s) ==
    LET l == s.w.list_widget
    IN  IF s.is_empty_view \/ l.items = <<>> THEN <<0, 0>>
        ELSE l.items[ListFocusIndex(l) + 1]

view_selected_list_tasks(st) ==
    LET selected == get_selected_list_obj(Top(st))
    IN  IF selected # 0
        THEN push_screen_stack(st, "FILTER_OPTIONS", Data("dict", [contexto_lista |-> selected]))
        ELSE st

view_all_tasks(st) == push_screen_stack(st, "FILTER_OPTIONS", Data("dict", [contexto_lista |-> 0]))

create_new_list(st) == push_screen_stack(st, "CREATELIST", NoData)

edit_selected_list(st) ==
    LET selected == get_selected_list_obj(Top(st))
    IN  IF selected # 0
        THEN push_screen_stack(st, "EDIT_LIST", Data("ListaDeTarefas", selected))
        ELSE st

search_tasks(st) == push_screen_stack(st, "SEARCH_INPUT", NoData)

delete_selected_list(st) ==
    LET selected == get_selected_list_obj(Top(st))
    IN  IF selected = 0 THEN st
        ELSE IF Len(st.taskmanager.listas) <= 1
        THEN SetTop(st, [Top(st) EXCEPT !.dialog = AlertDialog])
        ELSE SetTop(st, [Top(st) EXCEPT !.dialog = ConfirmationDialog])

cancel_delete(st) == SetTop(st, [Top(st) EXCEPT !.dialog = NoDialog])

perform_actual_delete(st) ==
    LET selected == get_selected_list_obj(Top(st))
        tm == remover_lista_de_tarefas(st.taskmanager, selected).tm
        s1 == IF selected # 0
              THEN SetTop([st EXCEPT !.taskmanager = tm], refresh_lists(Top(st), tm))
              ELSE st
    IN  SetTop(s1, [Top(s1) EXCEPT !.dialog = NoDialog])

\* save_list of CreateListScreen and of EditListScreen
save_list(st) ==
    LET s == Top(st)
        titulo == Strip(s.w.title_input.text)
        r == IF s.kind = "CreateListScreen"
             THEN criar_lista_de_tarefas(st.taskmanager, titulo)
             ELSE editar_lista_de_tarefas(st.taskmanager, s.lista_mae, titulo)
    IN  IF titulo = <<>>
        THEN SetTop(st, [s EXCEPT !.error = "O titulo nao pode estar vazio."])
        ELSE IF r.ok
        THEN pop_screen_stack([st EXCEPT !.taskmanager = r.tm])
        ELSE SetTop(st, [s EXCEPT !.error = "Ja existe uma lista com este nome."])

apply_filters(st) ==
    LET s == Top(st)
    IN  push_screen_stack(st, "TASK_VIEW",
            Data("dict", [filtro_status |-> MapStatus(s.w.filtro_status.index),
                          contexto_lista |-> s.contexto_lista]))

push_create_task_screen(st) ==
    LET s == Top(st)
    IN  IF s.contexto_lista # 0
        THEN push_screen_stack(st, "CREATETASK", Data("ListaDeTarefas", s.contexto_lista))
        ELSE st

open_task_details(st) ==
    LET sel == get_selected_result(Top(st))
    IN  IF sel[1] # 0 THEN push_screen_stack(st, "TASK_DETAIL", Data("tuple", sel)) ELSE st

confirm_delete_all_completed(st) ==
    SetTop(st, [Top(st) EXCEPT !.dialog = ConfirmationDialog])

perform_delete_all_completed(st) ==
    LET s1 == [st EXCEPT !.taskmanager = remover_tarefas_concluidas(@)]
    IN  pop_screen_stack(SetTop(s1, [Top(s1) EXCEPT !.dialog = NoDialog]))

edit_task(st) ==
    LET s == Top(st)
    IN  push_screen_stack(st, "EDIT_TASK", Data("tuple", <<s.tarefa, s.lista_mae>>))

save_task(st) ==
    LET s == Top(st)
    IN  pop_screen_stack([st EXCEPT !.taskmanager =
                            criar_tarefa(@, s.lista_mae, s.w.title_input.text,
                                         get_task_priority(s), get_task_frequency(s))])

cancel(st) == pop_screen_stack(st)

\* a statement after a call: skipped when the call raised or called exit()
ThenPop(st) == IF st.pc = "running" THEN pop_screen_stack(st) ELSE st

save_changes(st) ==
    LET s == Top(st)
        selected_list_obj == s.lista_options[s.w.lista_selector.index + 1]
        tm1 == IF s.lista_mae # selected_list_obj
               THEN mover_tarefa(st.taskmanager, s.tarefa, s.lista_mae, selected_list_obj)
               ELSE st.taskmanager
        tm2 == editar_tarefa(tm1, s.tarefa, s.w.title_input.text,
                             get_task_priority(s), get_task_frequency(s))
    IN  ThenPop(pop_screen_stack([st EXCEPT !.taskmanager = tm2]))

perform_search(st) ==
    LET termo == Strip(Top(st).w.search_input.text)
    IN  IF termo # <<>>
        THEN push_screen_stack(st, "SEARCH_RESULTS",
                Data("dict", [resultados |-> buscar_tarefas(st.taskmanager, termo)]))
        ELSE st

\* self.on_click() of a button, by the name of the bound method
Call(st, on_click) ==
    LET s1 == [st EXCEPT !.log.calls = Append(@, on_click)]
    IN  CASE on_click = "view_selected_list_tasks" -> view_selected_list_tasks(s1)
          [] on_click = "view_all_tasks" -> view_all_tasks(s1)
          [] on_click = "create_new_list" -> create_new_list(s1)
          [] on_click = "edit_selected_list" -> edit_selected_list(s1)
          [] on_click = "search_tasks" -> search_tasks(s1)
          [] on_click = "save_list" -> save_list(s1)
          [] on_click = "apply_filters" -> apply_filters(s1)
          [] on_click = "push_create_task_screen" -> push_create_task_screen(s1)
          [] on_click = "open_task_details" -> open_task_details(s1)
          [] on_click = "confirm_delete_all_completed" -> confirm_delete_all_completed(s1)
          [] on_click = "edit_task" -> edit_task(s1)
          [] on_click = "save_task" -> save_task(s1)
          [] on_click = "cancel" -> cancel(s1)
          [] on_click = "save_changes" -> save_changes(s1)
          [] on_click = "perform_search" -> perform_search(s1)
          [] on_click = "pop_screen_stack" -> pop_screen_stack(s1)
          [] OTHER -> s1

(***************************************************************************)
(* libtui.py: the widgets' process_input.  The value is [st, result],      *)
(* result being the truth value of what the method returns.                *)
(***************************************************************************)
Returns(st, result) == [st |-> st, result |-> result]

\* the widget `name` of the active screen replaced by w
SetWidget(st, name, w) == SetTop(st, [Top(st) EXCEPT !.w[name] = w])

Button_process_input(st, name, key) ==
    LET w == Top(st).w[name]
    IN  IF ~w.is_focused THEN Returns(st, FALSE)
        ELSE IF key = ENTER
        THEN Returns(IF w.on_click # "None" THEN Call(st, w.on_click) ELSE st, TRUE)
        ELSE Returns(st, FALSE)

\* the keys of one character: those str.isprintable() accepts, and a control
\* character (\x01) it does not
Printable == Chars \cup {SPACE}
ControlChars == {"^A"}
SingleChars == Printable \cup ControlChars

\* a bug to compare with: the text grows until it fills the whole width
RoomFor_whole_width(w) == Len(w.text) < w.width

\* len(self.text) < self.width - 2
RoomFor(w) == Len(w.text) < w.width - 2

\* a bug to compare with: the TextInput reports every key as consumed
TextInput_process_input_consumes(st, name, key) ==
    LET w == Top(st).w[name]
        w1 == IF key = BACKSPACE
              THEN [w EXCEPT !.text = SubSeq(@, 1, Len(@) - 1)]
              ELSE w
        w2 == IF key \in SingleChars /\ key \in Printable /\ RoomFor(w1)
              THEN [w1 EXCEPT !.text = Append(@, key)]
              ELSE w1
    IN  IF ~w.is_focused THEN Returns(st, FALSE)
        ELSE Returns(SetWidget(st, name, w2), TRUE)

\* a key of more than one character is a symbolic key, REFRESH or raw text
TextInput_process_input(st, name, key) ==
    LET w == Top(st).w[name]
        w1 == IF key = BACKSPACE
              THEN [w EXCEPT !.text = SubSeq(@, 1, Len(@) - 1)]
              ELSE w
        w2 == IF key \in SingleChars /\ key \in Printable /\ RoomFor(w1)
              THEN [w1 EXCEPT !.text = Append(@, key)]
              ELSE w1
    IN  IF ~w.is_focused THEN Returns(st, FALSE)
        ELSE Returns(SetWidget(st, name, w2), FALSE)

n_dias_mes == <<31, 28, 31, 30, 31, 30, 31, 31, 30, 31, 30, 31>>

\* a bug to compare with: every fourth year is a leap year
bissexto_every_fourth(year) == year % 4 = 0

bissexto(year) == year % 4 = 0 /\ (year % 100 # 0 \/ year % 400 = 0)

max_day_in_month(month, year) ==
    IF month = 2 THEN (IF bissexto(year) THEN 29 ELSE 28) ELSE n_dias_mes[month]

\* a bug to compare with: the day is left as it is
ClampDay_skipped(w) == w

\* if self.day > max_day: self.day = max_day
ClampDay(w) == [w EXCEPT !.day = Min(@, max_day_in_month(w.month, w.year))]

\* DateInput in edit mode, key UP: the field focus_index (0 day, 1 month, 2 year) grows
DateInput_up(w) ==
    CASE w.index = 0 ->
            [w EXCEPT !.day = IF @ + 1 > max_day_in_month(w.month, w.year) THEN 1 ELSE @ + 1]
      [] w.index = 1 -> ClampDay([w EXCEPT !.month = IF @ + 1 > 12 THEN 1 ELSE @ + 1])
      [] w.index = 2 -> ClampDay([w EXCEPT !.year = @ + 1])
      [] OTHER -> w

\* a bug to compare with: DOWN stops at the first month
DateInput_down_month_stops(w) ==
    CASE w.index = 0 ->
            [w EXCEPT !.day = IF @ - 1 < 1 THEN max_day_in_month(w.month, w.year) ELSE @ - 1]
      [] w.index = 1 -> ClampDay([w EXCEPT !.month = IF @ - 1 < 1 THEN 1 ELSE @ - 1])
      [] w.index = 2 -> ClampDay([w EXCEPT !.year = IF @ - 1 < 1 THEN 1 ELSE @ - 1])
      [] OTHER -> w

\* DateInput in edit mode, key DOWN
DateInput_down(w) ==
    CASE w.index = 0 ->
            [w EXCEPT !.day = IF @ - 1 < 1 THEN max_day_in_month(w.month, w.year) ELSE @ - 1]
      [] w.index = 1 -> ClampDay([w EXCEPT !.month = IF @ - 1 < 1 THEN 12 ELSE @ - 1])
      [] w.index = 2 -> ClampDay([w EXCEPT !.year = IF @ - 1 < 1 THEN 1 ELSE @ - 1])
      [] OTHER -> w

\* a bug to compare with: LEFT and RIGHT in browse mode are not consumed
DateInput_process_input_arrows_fall_through(st, name, key) ==
    LET w == Top(st).w[name]
    IN  IF ~w.is_focused THEN Returns(st, FALSE)
        ELSE IF w.being_edited
        THEN CASE key = UP -> Returns(SetWidget(st, name, DateInput_up(w)), TRUE)
               [] key = DOWN -> Returns(SetWidget(st, name, DateInput_down(w)), TRUE)
               [] key \in {ESC, ENTER} ->
                    Returns(SetWidget(st, name, [w EXCEPT !.being_edited = FALSE]), TRUE)
               [] OTHER -> Returns(st, FALSE)
        ELSE CASE key = LEFT ->
                    Returns(SetWidget(st, name, [w EXCEPT !.index = (@ - 1) % 3]), FALSE)
               [] key = RIGHT ->
                    Returns(SetWidget(st, name, [w EXCEPT !.index = (@ + 1) % 3]), FALSE)
               [] key = ENTER ->
                    Returns(SetWidget(st, name, [w EXCEPT !.being_edited = TRUE]), TRUE)
               [] OTHER -> Returns(st, FALSE)

DateInput_process_input(st, name, key) ==
    LET w == Top(st).w[name]
    IN  IF ~w.is_focused THEN Returns(st, FALSE)
        ELSE IF w.being_edited
        THEN CASE key = UP -> Returns(SetWidget(st, name, DateInput_up(w)), TRUE)
               [] key = DOWN -> Returns(SetWidget(st, name, DateInput_down(w)), TRUE)
               [] key \in {ESC, ENTER} ->
                    Returns(SetWidget(st, name, [w EXCEPT !.being_edited = FALSE]), TRUE)
               [] OTHER -> Returns(st, FALSE)
        ELSE CASE key = LEFT ->
                    Returns(SetWidget(st, name, [w EXCEPT !.index = (@ - 1) % 3]), TRUE)
               [] key = RIGHT ->
                    Returns(SetWidget(st, name, [w EXCEPT !.index = (@ + 1) % 3]), TRUE)
               [] key = ENTER ->
                    Returns(SetWidget(st, name, [w EXCEPT !.being_edited = TRUE]), TRUE)
               [] OTHER -> Returns(st, FALSE)

\* a bug to compare with: ESC in edit mode leaves the mode but is not consumed
Selector_process_input_esc_not_consumed(st, name, key) ==
    LET w == Top(st).w[name]
    IN  IF ~w.is_focused THEN Returns(st, FALSE)
        ELSE IF w.being_edited
        THEN CASE key = UP ->
                    Returns(SetWidget(st, name, [w EXCEPT !.index = (@ - 1) % w.n]), TRUE)
               [] key = DOWN ->
                    Returns(SetWidget(st, name, [w EXCEPT !.index = (@ + 1) % w.n]), TRUE)
               [] key \in {ENTER, ESC} ->
                    Returns(SetWidget(st, name, [w EXCEPT !.being_edited = FALSE]), key = ENTER)
               [] OTHER -> Returns(st, TRUE)
        ELSE IF key = ENTER
        THEN Returns(SetWidget(st, name, [w EXCEPT !.being_edited = TRUE]), TRUE)
        ELSE Returns(st, FALSE)

Selector_process_input(st, name, key) ==
    LET w == Top(st).w[name]
    IN  IF ~w.is_focused THEN Returns(st, FALSE)
        ELSE IF w.being_edited
        THEN CASE key = UP ->
                    Returns(SetWidget(st, name, [w EXCEPT !.index = (@ - 1) % w.n]), TRUE)
               [] key = DOWN ->
                    Returns(SetWidget(st, name, [w EXCEPT !.index = (@ + 1) % w.n]), TRUE)
               [] key \in {ENTER, ESC} ->
                    Returns(SetWidget(st, name, [w EXCEPT !.being_edited = FALSE]), TRUE)
               [] OTHER -> Returns(st, TRUE)
        ELSE IF key = ENTER
        THEN Returns(SetWidget(st, name, [w EXCEPT !.being_edited = TRUE]), TRUE)
        ELSE Returns(st, FALSE)

\* a bound that is None bounds nothing
AboveMax(w) == w.max # <<>> /\ w.value > w.max[1]
BelowMin(w) == w.min # <<>> /\ w.value < w.min[1]

IntInput_up(w) ==
    LET w1 == [w EXCEPT !.value = @ + 1]
    IN  IF AboveMax(w1) THEN [w1 EXCEPT !.value = w.max[1]] ELSE w1

IntInput_down(w) ==
    LET w1 == [w EXCEPT !.value = @ - 1]
    IN  IF BelowMin(w1) THEN [w1 EXCEPT !.value = w.min[1]] ELSE w1

IntInput_process_input(st, name, key) ==
    LET w == Top(st).w[name]
    IN  IF ~w.is_focused THEN Returns(st, FALSE)
        ELSE IF w.being_edited
        THEN CASE key = UP -> Returns(SetWidget(st, name, IntInput_up(w)), TRUE)
               [] key = DOWN -> Returns(SetWidget(st, name, IntInput_down(w)), TRUE)
               [] key \in {ENTER, ESC} ->
                    Returns(SetWidget(st, name, [w EXCEPT !.being_edited = FALSE]), TRUE)
               [] OTHER -> Returns(st, TRUE)
        ELSE IF key = ENTER
        THEN Returns(SetWidget(st, name, [w EXCEPT !.being_edited = TRUE]), TRUE)
        ELSE Returns(st, FALSE)

Checkbox_process_input(st, name, key) ==
    LET w == Top(st).w[name]
    IN  IF ~w.is_focused THEN Returns(st, FALSE)
        ELSE IF key \in {ENTER, SPACE}
        THEN Returns(SetWidget(st, name, [w EXCEPT !.checked = ~@]), TRUE)
        ELSE Returns(st, FALSE)

\* a bug to compare with: the window stops one child short of the selection
ensure_visible_one_short(w) ==
    IF ListFocusIndex(w) < w.scroll_offset
    THEN [w EXCEPT !.scroll_offset = ListFocusIndex(w)]
    ELSE IF ListFocusIndex(w) >= w.scroll_offset + w.height - 2
    THEN [w EXCEPT !.scroll_offset = ListFocusIndex(w) - (w.height - 2)]
    ELSE w

\* a bug to compare with: the window follows the selection upwards only
ensure_visible_upwards_only(w) ==
    IF ListFocusIndex(w) < w.scroll_offset
    THEN [w EXCEPT !.scroll_offset = ListFocusIndex(w)]
    ELSE w

\* VerticalList._ensure_visible
ensure_visible(w) ==
    IF ListFocusIndex(w) < w.scroll_offset
    THEN [w EXCEPT !.scroll_offset = ListFocusIndex(w)]
    ELSE IF ListFocusIndex(w) >= w.scroll_offset + w.height - 2
    THEN [w EXCEPT !.scroll_offset = ListFocusIndex(w) - (w.height - 3)]
    ELSE w

\* a bug to compare with: the setter bounds the index from above only
SetListFocusIndex_no_floor(w, value) ==
    IF Len(w.items) = 0 THEN [w EXCEPT !.index = 0]
    ELSE [w EXCEPT !.index = Min(value, Len(w.items) - 1)]

\* VerticalList.focus_index (the property's setter)
SetListFocusIndex(w, value) ==
    IF Len(w.items) = 0 THEN [w EXCEPT !.index = 0]
    ELSE [w EXCEPT !.index = Max(0, Min(value, Len(w.items) - 1))]

\* VerticalList._move_focus
VerticalList_move_focus(w, delta) ==
    IF w.items = <<>> THEN w
    ELSE ensure_visible(SetListFocusIndex(w, (ListFocusIndex(w) + delta) % Len(w.items)))

\* the children are labels: Widget.process_input returns None for every key
VerticalList_process_input(st, name, key) ==
    LET w == Top(st).w[name]
    IN  IF ~w.is_focused THEN Returns(st, FALSE)
        ELSE CASE key = UP -> Returns(SetWidget(st, name, VerticalList_move_focus(w, -1)), TRUE)
               [] key = DOWN -> Returns(SetWidget(st, name, VerticalList_move_focus(w, 1)), TRUE)
               [] OTHER -> Returns(st, FALSE)

\* focused_widget.process_input(key), by the class of the widget
Widget_process_input(st, name, key) ==
    LET type == Top(st).w[name].type
    IN  CASE type = "Button" -> Button_process_input(st, name, key)
          [] type = "TextInput" -> TextInput_process_input(st, name, key)
          [] type = "DateInput" -> DateInput_process_input(st, name, key)
          [] type = "Selector" -> Selector_process_input(st, name, key)
          [] type = "IntInput" -> IntInput_process_input(st, name, key)
          [] type = "Checkbox" -> Checkbox_process_input(st, name, key)
          [] type = "VerticalList" -> VerticalList_process_input(st, name, key)
          [] OTHER -> Returns(st, FALSE)

\* the dialog of the active screen; on_confirm, on_cancel and on_dismiss are the
\* callbacks its screen gave it
on_confirm(st) ==
    LET s1 == [st EXCEPT !.log.confirms = @ + 1]
    IN  IF Top(s1).kind = "ListSelectionScreen" THEN perform_actual_delete(s1)
        ELSE perform_delete_all_completed(s1)

\* _cancel_delete of ListSelectionScreen, the lambda that does the same of TaskViewScreen
on_cancel(st) == cancel_delete([st EXCEPT !.log.cancels = @ + 1])

\* a bug to compare with: ENTER confirms whichever button is selected
ConfirmationDialog_process_input_enter_confirms(st, key) ==
    CASE key \in {LEFT, RIGHT, TAB} ->
            Returns(SetTop(st, [Top(st) EXCEPT !.dialog.focus_index = 1 - @]), TRUE)
      [] key = ENTER -> Returns(on_confirm(st), TRUE)
      [] key = ESC -> Returns(on_cancel(st), TRUE)
      [] OTHER -> Returns(st, TRUE)

ConfirmationDialog_process_input(st, key) ==
    LET d == Top(st).dialog
    IN  CASE key \in {LEFT, RIGHT, TAB} ->
                Returns(SetTop(st, [Top(st) EXCEPT !.dialog.focus_index = 1 - @]), TRUE)
          [] key = ENTER ->
                Returns(IF d.focus_index = 0 THEN on_confirm(st) ELSE on_cancel(st), TRUE)
          [] key = ESC -> Returns(on_cancel(st), TRUE)
          [] OTHER -> Returns(st, TRUE)

AlertDialog_process_input(st, key) ==
    Returns(IF key \in {ENTER, ESC, SPACE} THEN cancel_delete(st) ELSE st, TRUE)

Dialog_process_input(st, key) ==
    IF Top(st).dialog.type = "AlertDialog" THEN AlertDialog_process_input(st, key)
    ELSE ConfirmationDialog_process_input(st, key)

(***************************************************************************)
(* The screens' process_input.  d is the record of the delivery, begun     *)
(* as the screen's method is entered.                                      *)
(***************************************************************************)
\* a bug to compare with: the screen does not look at its dialog
DialogHasInput_never(s) == FALSE

\* `if self.dialog:` of the two screens that host dialogs
DialogHasInput(s) == s.dialog.type # "None"

\* a bug to compare with: the focused widget's answer is ignored
Consumed_never(result) == FALSE

\* `if focused_widget.process_input(key): return`
Consumed(result) == result

\* the arrow keys of TUIScreen.process_input
\* idx = focusable.index(next_widget) and set_focus_by_index(idx), when a widget was found
FocusNext(s, next_widget) ==
    IF next_widget # "None"
    THEN set_focus_by_index(s,
            FirstIdx(get_focusable_widgets(s), LAMBDA name : name = next_widget) - 1)
    ELSE s

Directional(st, key) ==
    SetTop(st, FocusNext(Top(st), find_next_widget_in_direction(Top(st), key)))

\* TUIScreen.process_input after the focused widget: the arrow keys, then
\* TAB, SHIFT_TAB and ESC
Navigation(st, key, d) ==
    CASE key \in {UP, DOWN, LEFT, RIGHT} -> Deliver(Directional(st, key), [d EXCEPT !.nav = "dir"])
      [] key \in {TAB, SHIFT_TAB} ->
            Deliver(SetTop(st, move_focus(Top(st), IF key = TAB THEN 1 ELSE -1)),
                    [d EXCEPT !.nav = "tab"])
      [] key = ESC -> pop_screen_stack(Deliver(st, [d EXCEPT !.nav = "esc"]))
      [] OTHER -> Deliver(st, d)

\* r is what focused_widget.process_input(key) returned
Offered(r, key, d) ==
    IF Consumed(r.result)
    THEN Deliver(r.st, [d EXCEPT !.offered = TRUE, !.consumed = r.result])
    ELSE Navigation(r.st, key, [d EXCEPT !.offered = TRUE, !.consumed = r.result])

TUIScreen_process_input(st, key, d) ==
    LET focused_widget == get_focused_widget(Top(st))
    IN  IF focused_widget # "None"
        THEN Offered(Widget_process_input(st, focused_widget, key), key, d)
        ELSE Navigation(st, key, d)

\* The process_input of a screen class is its own part, which either
\* returns (Return) or ends in super().process_input(key) (Super).
Return(st) == [st |-> st, d |-> <<>>, super |-> FALSE]
Super(st, d) == [st |-> st, d |-> d, super |-> TRUE]

ListSelectionScreen_process_input(st, key, d) ==
    IF DialogHasInput(Top(st))
    THEN Return(Deliver(Dialog_process_input(st, key).st, [d EXCEPT !.to_dialog = TRUE]))
    ELSE IF key = REFRESH
    THEN Return(Deliver(SetTop(st, refresh_lists(Top(st), st.taskmanager)),
                        [d EXCEPT !.handled = "refresh"]))
    ELSE IF key = DELETE
    THEN Super(delete_selected_list(st), [d EXCEPT !.handled = "shortcut"])
    ELSE Super(st, d)

\* ENTER and DELETE on the focused list of TaskViewScreen
TaskViewScreen_list_keys(st, key, d) ==
    LET sel == get_selected_result(Top(st))
        tm == IF key = ENTER
              THEN toggle_tarefa_concluida(st.taskmanager, sel[2], sel[1])
              ELSE remover_tarefa(st.taskmanager, sel[2], sel[1])
    IN  Deliver(SetTop([st EXCEPT !.taskmanager = tm], refresh_tasks(Top(st), tm)),
                [d EXCEPT !.handled = "shortcut"])

TaskViewScreen_process_input(st, key, d) ==
    LET s == Top(st)
    IN  IF DialogHasInput(s)
        THEN Return(Deliver(Dialog_process_input(st, key).st, [d EXCEPT !.to_dialog = TRUE]))
        ELSE IF key = REFRESH
        THEN Return(Deliver(SetTop(st, refresh_tasks(s, st.taskmanager)),
                            [d EXCEPT !.handled = "refresh"]))
        ELSE IF get_focused_widget(s) = "list_widget" /\ ~s.is_empty_view
                /\ key \in {ENTER, DELETE} /\ get_selected_result(s)[1] # 0
        THEN Return(TaskViewScreen_list_keys(st, key, d))
        ELSE Super(st, d)

TaskDetailScreen_process_input(st, key, d) ==
    IF key = REFRESH
    THEN Return(pop_screen_stack(Deliver(st, [d EXCEPT !.handled = "refresh"])))
    ELSE Super(st, d)

\* a bug to compare with: the other checkboxes are left as they are
update_priority_selection_skipped(s, selected_checkbox) == s

\* update_priority_selection of the two task forms
update_priority_selection(s, selected_checkbox) ==
    [s EXCEPT !.w = [name \in DOMAIN s.w |->
        IF name \in {"priority_none", "priority_low", "priority_medium", "priority_high"}
        THEN [s.w[name] EXCEPT !.checked = (name = selected_checkbox)]
        ELSE s.w[name]]]

\* process_input of CreateTaskScreen and of EditTaskScreen
\* r is what the focused priority checkbox returned for the key
PriorityChosen(r, focused_widget, d) ==
    Deliver(SetTop(r.st, update_priority_selection(Top(r.st), focused_widget)),
            [d EXCEPT !.offered = TRUE, !.consumed = r.result])

TaskForm_process_input(st, key, d) ==
    LET focused_widget == get_focused_widget(Top(st))
    IN  IF focused_widget \in {"priority_none", "priority_low", "priority_medium", "priority_high"}
           /\ key \in {ENTER, SPACE}
        THEN Return(PriorityChosen(Checkbox_process_input(st, focused_widget, key),
                                   focused_widget, d))
        ELSE Super(st, d)

\* ENTER and DELETE on the focused list of SearchResultsScreen
SearchResultsScreen_list_keys(st, key, d) ==
    LET s == Top(st)
        sel == get_selected_result(s)
        i == ListFocusIndex(s.w.list_widget) + 1
        tm == IF key = ENTER
              THEN toggle_tarefa_concluida(st.taskmanager, sel[2], sel[1])
              ELSE remover_tarefa(st.taskmanager, sel[2], sel[1])
        s1 == IF key = DELETE
              THEN [s EXCEPT !.resultados =
                        SubSeq(@, 1, i - 1) \o SubSeq(@, i + 1, Len(@))]
              ELSE s
    IN  Deliver(SetTop([st EXCEPT !.taskmanager = tm], refresh_list_ui(s1)),
                [d EXCEPT !.handled = "shortcut"])

SearchResultsScreen_process_input(st, key, d) ==
    LET s == Top(st)
    IN  IF get_focused_widget(s) = "list_widget" /\ ~s.is_empty_view
           /\ key \in {ENTER, DELETE} /\ get_selected_result(s)[1] # 0
        THEN Return(SearchResultsScreen_list_keys(st, key, d))
        ELSE Super(st, d)

\* the method of the screen's class; the other classes inherit TUIScreen's
Screen_process_input(st, key, d) ==
    LET kind == Top(st).kind
    IN  CASE kind = "ListSelectionScreen" -> ListSelectionScreen_process_input(st, key, d)
          [] kind = "TaskViewScreen" -> TaskViewScreen_process_input(st, key, d)
          [] kind = "TaskDetailScreen" -> TaskDetailScreen_process_input(st, key, d)
          [] kind \in {"CreateTaskScreen", "EditTaskScreen"} -> TaskForm_process_input(st, key, d)
          [] kind = "SearchResultsScreen" -> SearchResultsScreen_process_input(st, key, d)
          [] OTHER -> Super(st, d)

\* super().process_input(key), where the screen's own part ended in it
super_process_input(own, key) ==
    IF own.super THEN TUIScreen_process_input(own.st, key, own.d) ELSE own.st

\* self.current_screen.process_input(key)
process_input(st, key) ==
    super_process_input(Screen_process_input(st, key, Delivery(st, key)), key)

(***************************************************************************)
(* Specification Spec: the application.                                    *)
(***************************************************************************)
\* GerenciadorTarefas before load_database
NoTaskManager == [listas |-> <<>>, proximo_id_lista |-> 1, proximo_id_tarefa |-> 1]

Init ==
    /\ pc = "start"
    /\ raw_mode = FALSE
    /\ term = InitialTerm
    /\ screen_stack = <<>>
    /\ current_screen = 0
    /\ taskmanager = NoTaskManager
    /\ log = EmptyLog

SetState(st) ==
    /\ pc' = st.pc
    /\ raw_mode' = st.raw_mode
    /\ term' = st.term
    /\ screen_stack' = st.screen_stack
    /\ current_screen' = st.current_screen
    /\ taskmanager' = st.taskmanager
    /\ log' = st.log

\* TodoApp.build
build(st) ==
    LET s1 == [st EXCEPT !.screen_stack = <<>>,
                         !.term.cursor_shown = FALSE,
                         !.taskmanager = LoadedDatabase]
    IN  push_screen_stack(s1, "LIST_SELECTION", NoData)

(***************************************************************************)
(* Rendering.  The terminal's picture is not part of the state; a render   *)
(* is modelled by what it writes to the widgets (w.shown) and by the order *)
(* in which it draws (log.drawn).                                          *)
(***************************************************************************)
\* DateInput.render: self.text = self._format_text(), kept as
\* <<day, month, year, part in brackets>>, the part being 1..3 or 0 for none
DateInput_render(w) ==
    [w EXCEPT !.shown = <<w.day, w.month, w.year,
                          IF w.is_focused /\ ~w.being_edited THEN w.index + 1 ELSE 0>>]

\* a bug to compare with: drawing the selector ends its edit mode
Selector_render_leaves_edit(w) ==
    [w EXCEPT !.shown = <<w.index, IF w.is_focused THEN 1 ELSE 0>>, !.being_edited = FALSE]

\* Selector.render: update_text(), kept as <<selected option, in brackets or not>>
Selector_render(w) ==
    [w EXCEPT !.shown = <<w.index, IF w.is_focused THEN 1 ELSE 0>>]

\* Checkbox.render: self.text is "[X] label" or "[ ] label"
Checkbox_render(w) == [w EXCEPT !.shown = <<IF w.checked THEN 1 ELSE 0>>]

\* VerticalList.render: the children of the slice
\* [scroll_offset : scroll_offset + height - 2] are placed and told whether
\* they are the selected one (1) or not (0)
VerticalList_render(w) ==
    LET first == Min(w.scroll_offset, Len(w.items))
        last == Min(w.scroll_offset + w.height - 2, Len(w.items))
    IN  [w EXCEPT !.shown = [i \in 1..(last - first) |->
                                IF w.scroll_offset + i - 1 = ListFocusIndex(w) THEN 1 ELSE 0]]

\* child.render(), by the class of the widget; the other classes write nothing
Widget_render(w) ==
    CASE w.type = "DateInput" -> DateInput_render(w)
      [] w.type = "Selector" -> Selector_render(w)
      [] w.type = "Checkbox" -> Checkbox_render(w)
      [] w.type = "VerticalList" -> VerticalList_render(w)
      [] OTHER -> w

\* self.children of a screen, as far as the record keeps the widgets: the two
\* task lists keep their list_widget among the children of an empty view
ScreenChildren(s) ==
    CASE s.kind = "TUIScreen" -> s.children
      [] s.kind \in {"TaskViewScreen", "SearchResultsScreen"} /\ s.is_empty_view ->
            <<"list_widget">> \o get_focusable_widgets(s)
      [] OTHER -> get_focusable_widgets(s)

\* TUIScreen.render: `for child in self.children: child.render()`
TUIScreen_render(s) ==
    LET children == ScreenChildren(s)
        rendered == {children[i] : i \in 1..Len(children)}
    IN  [s |-> [s EXCEPT !.w = [name \in DOMAIN s.w |->
                                   IF name \in rendered THEN Widget_render(s.w[name])
                                   ELSE s.w[name]]],
         drawn |-> children]

\* ListSelectionScreen.render: super().render(), then the dialog if there is one
ListSelectionScreen_render(s) ==
    LET r == TUIScreen_render(s)
    IN  IF s.dialog.type # "None" THEN [r EXCEPT !.drawn = Append(@, "dialog")] ELSE r

\* the render of the screen's class: only ListSelectionScreen overrides it
Screen_render(s) ==
    IF s.kind = "ListSelectionScreen" THEN ListSelectionScreen_render(s)
    ELSE TUIScreen_render(s)

\* a bug to compare with: the screen is not drawn
render_skipped(st) == st

\* self.current_screen.render(), current_screen being a screen of the stack
RenderCurrent(st, r) ==
    [st EXCEPT !.screen_stack[st.current_screen] = r.s, !.log.drawn = @ \o r.drawn]

\* TUIApplication.render: clear_screen and current_screen.render()
render(st) ==
    LET s1 == [st EXCEPT !.log.renders = Append(@, st.current_screen)]
    IN  IF st.current_screen \in 1..Len(st.screen_stack)
        THEN RenderCurrent(s1, Screen_render(st.screen_stack[st.current_screen]))
        ELSE s1

\* the body of the loop of run() for a key: process_input(key), then render()
\* unless process_input left by exit() or an exception
run_turn(st, key) ==
    LET s1 == process_input(st, key)
    IN  IF s1.pc = "running" THEN render(s1) ELSE s1

\* TodoApp(): TUIApplication.__init__ enters raw mode and builds; run()
\* follows and renders before it reads the first key
TodoApp_init ==
    /\ pc = "start"
    /\ SetState(render([build(enable_raw_mode(State([save_fails |-> FALSE])))
                            EXCEPT !.pc = "running"]))

\* build raises (the database file is there but cannot be read as lists of
\* tasks): the exception leaves __init__ after raw mode was entered
TodoApp_init_build_raises ==
    /\ pc = "start"
    /\ SetState([enable_raw_mode(State([save_fails |-> FALSE])) EXCEPT
                    !.pc = "crashed", !.term.cursor_shown = FALSE])

\* what the user of the model does: text goes only into the titles and the
\* search term, and priority, date, recurrence, date filter and ordering of
\* the forms are left alone.  A hosted dialog takes every key.
UserPresses(key) ==
    LET s == screen_stack[Len(screen_stack)]
        name == get_focused_widget(s)
        w == s.w[name]
    IN  \/ s.dialog.type # "None"
        \/ name = "None"
        \/ /\ key \in Chars =>
                /\ name \notin {"notes_input", "tags_input"}
                /\ w.type # "Checkbox"
                /\ w.type = "TextInput" => Len(w.text) < MaxText
           /\ key \in {LEFT, RIGHT} => w.type # "DateInput"
           /\ key = ENTER =>
                /\ w.type \notin {"Checkbox", "DateInput"}
                /\ w.type = "Selector" => name \in {"filtro_status", "lista_selector"}

\* the step is taken while the ids of the task manager stay within the bounds
WithinBounds(st) ==
    /\ st.taskmanager.proximo_id_lista <= MaxListId + 1
    /\ st.taskmanager.proximo_id_tarefa <= MaxTaskId + 1
    /\ SetState(st)

\* one turn of the run loop: a key is read, dispatched to the active screen and
\* the active screen is rendered; rendering changes nothing of the state
Dispatch(key, save_fails) ==
    /\ pc = "running"
    /\ UserPresses(key)
    /\ save_fails => Len(screen_stack) <= 3
    /\ WithinBounds(run_turn([State([save_fails |-> save_fails]) EXCEPT !.log = EmptyLog],
                             key))

\* read_key returns no event ('' at the end of standard input): `continue`
NoEvent ==
    /\ pc = "running"
    /\ log' = [EmptyLog EXCEPT !.key = "None"]
    /\ UNCHANGED <<pc, raw_mode, term, screen_stack, current_screen, taskmanager>>

\* an exception leaves run(): KeyboardInterrupt (raw mode keeps ISIG) or an
\* OSError of the terminal while a key is read, dispatched or rendered
Fail ==
    /\ pc = "running"
    /\ pc' = "crashed"
    /\ UNCHANGED <<raw_mode, term, screen_stack, current_screen, taskmanager, log>>

Next ==
    \/ TodoApp_init
    \/ TodoApp_init_build_raises
    \/ \E key \in Keys, save_fails \in BOOLEAN : Dispatch(key, save_fails)
    \/ NoEvent
    \/ Fail

Spec == Init /\ [][Next]_vars

(***************************************************************************)
(* Specification SpecNav: the focus manager of TUIScreen on a screen of    *)
(* the base class with three buttons, each anywhere on the grid.  The      *)
(* buttons have no on_click; the keys are the arrows, TAB and SHIFT_TAB.   *)
(***************************************************************************)
NavChildren == <<"first", "second", "third">>
NavNames == {NavChildren[i] : i \in 1..Len(NavChildren)}
Grid == (0..GridMax) \X (0..GridMax)
NavKeys == {UP, DOWN, LEFT, RIGHT, TAB, SHIFT_TAB}

\* a subclass of TUIScreen whose __init__ appends the buttons and focuses the first
NavScreen(pos) ==
    set_focus_by_index(
        [EmptyScreen EXCEPT
            !.children = NavChildren,
            !.w = [name \in NavNames |-> Button(pos[name][1], pos[name][2], "None")]], 0)

NavInit ==
    /\ pc = "running"
    /\ raw_mode = TRUE
    /\ term = [InitialTerm EXCEPT !.cursor_shown = FALSE]
    /\ \E pos \in [NavNames -> Grid] : screen_stack = <<NavScreen(pos)>>
    /\ current_screen = 1
    /\ taskmanager = NoTaskManager
    /\ log = EmptyLog

\* one turn of the run loop on the navigation screen; the key is kept in the log
NavKey(key) ==
    /\ pc = "running"
    /\ SetState(process_input([State([save_fails |-> FALSE]) EXCEPT
                                  !.log = [EmptyLog EXCEPT
                                              !.key = key,
                                              !.focus = get_focused_widget(screen_stack[1])]],
                              key))

NavNext == \E key \in NavKeys : NavKey(key)

SpecNav == NavInit /\ [][NavNext]_vars

(***************************************************************************)
(* Specification SpecFocus: set_focus_by_index and move_focus of TUIScreen *)
(* called directly on a screen of the base class whose children are        *)
(* buttons (focusable) or labels (not focusable), none focused at first.   *)
(***************************************************************************)
MaxIndex == 4      \* set_focus_by_index is called with -MaxIndex..MaxIndex

\* a TUIScreen whose children of `focusable` are buttons, the others labels
FocusScreen(focusable) ==
    [EmptyScreen EXCEPT
        !.children = NavChildren,
        !.w = [name \in NavNames |->
                  IF name \in focusable THEN Button(0, 0, "None") ELSE Label(0, 0)]]

FocusInit ==
    /\ pc = "running"
    /\ raw_mode = TRUE
    /\ term = [InitialTerm EXCEPT !.cursor_shown = FALSE]
    /\ \E focusable \in SUBSET NavNames : screen_stack = <<FocusScreen(focusable)>>
    /\ current_screen = 1
    /\ taskmanager = NoTaskManager
    /\ log = EmptyLog

\* the screen replaced by what the called method leaves; the call is kept in the log
Called(method, index, s) ==
    /\ screen_stack' = <<s>>
    /\ log' = [EmptyLog EXCEPT !.key = method, !.index = index,
                               !.focus = get_focused_widget(screen_stack[1])]
    /\ UNCHANGED <<pc, raw_mode, term, current_screen, taskmanager>>

\* screen.set_focus_by_index(index)
SetFocusByIndex(index) ==
    Called("set_focus_by_index", index, set_focus_by_index(screen_stack[1], index))

\* screen.move_focus(direction)
MoveFocus(direction) ==
    Called("move_focus", direction, move_focus(screen_stack[1], direction))

FocusStep ==
    \/ \E index \in (-MaxIndex)..MaxIndex : SetFocusByIndex(index)
    \/ \E direction \in {1, -1} : MoveFocus(direction)

SpecFocus == FocusInit /\ [][FocusStep]_vars

(***************************************************************************)
(* Specification SpecWidgets: the run loop on a screen of the base class   *)
(* with one value selector (a DateInput, a Selector or an IntInput), named *)
(* field, and a button to its right.                                       *)
(***************************************************************************)
MaxValue == 2      \* the IntInput starts in 0..MaxValue and stays in -1..MaxValue + 1

\* the years of the dates: the first year, a century that is no leap year, one
\* that is, a leap year and the year after it
Years == {1, 1900, 2000, 2024, 2025}

\* the days of the dates: the first of a month and those a month may end with
Days == {1, 28, 29, 30, 31}

StartDates ==
    {date \in Days \X (1..12) \X Years : date[1] <= max_day_in_month(date[2], date[3])}

\* the selectors the screen is built with
Fields ==
    {DateInput(0, 0, date) : date \in StartDates}
        \cup {Selector(3, i, 0, 0) : i \in (-1)..3}
        \cup {IntInput(v, lo, hi, 0, 0) :
                 v \in 0..MaxValue, lo \in {<<>>, <<0>>}, hi \in {<<>>, <<MaxValue>>}}

WidgetKeys == {UP, DOWN, LEFT, RIGHT, TAB, SHIFT_TAB, ENTER, ESC, "a"}

\* a subclass of TUIScreen whose __init__ appends field and button and focuses field
WidgetScreen(field) ==
    set_focus_by_index(
        [EmptyScreen EXCEPT
            !.children = <<"field", "button">>,
            !.w = [field |-> field, button |-> Button(10, 0, "None")]], 0)

WidgetsInit ==
    /\ pc = "running"
    /\ raw_mode = TRUE
    /\ term = [InitialTerm EXCEPT !.cursor_shown = FALSE]
    /\ \E field \in Fields : screen_stack = <<WidgetScreen(field)>>
    /\ current_screen = 1
    /\ taskmanager = NoTaskManager
    /\ log = EmptyLog

\* the day, value or selected index of a selector
ValueOf(w) ==
    CASE w.type = "DateInput" -> w.day
      [] w.type = "IntInput" -> w.value
      [] OTHER -> w.index

\* the step is taken while day, year and value stay within the bounds
FieldWithinBounds(st) ==
    /\ st.screen_stack # <<>> =>
            /\ st.screen_stack[1].w.field.type = "DateInput" =>
                    /\ st.screen_stack[1].w.field.year \in Years
                    /\ st.screen_stack[1].w.field.day \in Days
            /\ st.screen_stack[1].w.field.value \in (-1)..(MaxValue + 1)
    /\ SetState(st)

\* one turn of the run loop on the screen; the key is kept in the log
WidgetKey(key) ==
    /\ pc = "running"
    /\ FieldWithinBounds(
            process_input([State([save_fails |-> FALSE]) EXCEPT
                              !.log = [EmptyLog EXCEPT
                                          !.key = key,
                                          !.focus = get_focused_widget(screen_stack[1]),
                                          !.index = ValueOf(screen_stack[1].w.field)]],
                          key))

WidgetsNext == \E key \in WidgetKeys : WidgetKey(key)

SpecWidgets == WidgetsInit /\ [][WidgetsNext]_vars

(***************************************************************************)
(* Specification SpecList: the run loop on a screen of the base class      *)
(* whose only widget is a VerticalList; the screen refills the list as     *)
(* refresh_lists and refresh_tasks do.                                     *)
(***************************************************************************)
MaxHeight == 5     \* the list is built with a height in 3..MaxHeight
MaxItems == 6      \* the list holds at most MaxItems children

\* a subclass of TUIScreen whose __init__ appends the list and focuses it
ListScreen(height) ==
    set_focus_by_index(
        [EmptyScreen EXCEPT
            !.children = <<"list_widget">>,
            !.w = [list_widget |-> VerticalList(3, 3, height)]], 0)

ListInit ==
    /\ pc = "running"
    /\ raw_mode = TRUE
    /\ term = [InitialTerm EXCEPT !.cursor_shown = FALSE]
    /\ \E height \in 3..MaxHeight : screen_stack = <<ListScreen(height)>>
    /\ current_screen = 1
    /\ taskmanager = NoTaskManager
    /\ log = EmptyLog

\* list_widget.children.clear() and add_child for each of n objects;
\* scroll_offset and _focus_index stay as they are
Refill(n) ==
    /\ pc = "running"
    /\ screen_stack' = [screen_stack EXCEPT ![1].w.list_widget.items = [i \in 1..n |-> i]]
    /\ log' = [EmptyLog EXCEPT !.key = REFRESH]
    /\ UNCHANGED <<pc, raw_mode, term, current_screen, taskmanager>>

\* one turn of the run loop on the screen; the key and the scroll_offset
\* before the step are kept in the log
ListKey(key) ==
    /\ pc = "running"
    /\ SetState(process_input([State([save_fails |-> FALSE]) EXCEPT
                                  !.log = [EmptyLog EXCEPT
                                              !.key = key,
                                              !.index = screen_stack[1].w.list_widget.scroll_offset]],
                              key))

ListNext ==
    \/ \E n \in 0..MaxItems : Refill(n)
    \/ \E key \in {UP, DOWN} : ListKey(key)

SpecList == ListInit /\ [][ListNext]_vars

(***************************************************************************)
(* Specification SpecListAssign: SpecList, and the owner of the list also  *)
(* assigns to its focus_index.  No screen of the application does.         *)
(***************************************************************************)
\* list_widget.focus_index = value; the value is kept in the log
AssignFocusIndex(value) ==
    /\ pc = "running"
    /\ screen_stack' = [screen_stack EXCEPT
                            ![1].w.list_widget = SetListFocusIndex(@, value)]
    /\ log' = [EmptyLog EXCEPT !.key = "focus_index", !.index = value]
    /\ UNCHANGED <<pc, raw_mode, term, current_screen, taskmanager>>

ListAssignNext ==
    \/ ListNext
    \/ \E value \in (-2)..(MaxItems + 1) : AssignFocusIndex(value)

SpecListAssign == ListInit /\ [][ListAssignNext]_vars

(***************************************************************************)
(* Specification SpecListDelete: SpecList with the refills the screens of  *)
(* the application make: the list grows by one child (a list was created   *)
(* and the list-selection screen refreshed) or loses the object of the     *)
(* selected child (_perform_actual_delete, DELETE on the search results).  *)
(* The children are made anew on each refill; the model names them by      *)
(* their position.                                                         *)
(***************************************************************************)
\* refresh_lists after a list was created
Grow ==
    /\ Len(screen_stack[1].w.list_widget.items) < MaxItems
    /\ Refill(Len(screen_stack[1].w.list_widget.items) + 1)

\* the object of the selected child is removed, then children.clear() and
\* add_child for each object that is left; the scroll_offset before is kept in the log
DeleteSelected ==
    /\ pc = "running"
    /\ Len(screen_stack[1].w.list_widget.items) >= 1
    /\ screen_stack' = [screen_stack EXCEPT ![1].w.list_widget.items =
                            [i \in 1..(Len(@) - 1) |-> i]]
    /\ log' = [EmptyLog EXCEPT !.key = DELETE,
                               !.index = screen_stack[1].w.list_widget.scroll_offset]
    /\ UNCHANGED <<pc, raw_mode, term, current_screen, taskmanager>>

ListDeleteNext ==
    \/ Grow
    \/ DeleteSelected
    \/ \E key \in {UP, DOWN} : ListKey(key)

SpecListDelete == ListInit /\ [][ListDeleteNext]_vars

(***************************************************************************)
(* Specification SpecText: the run loop on a screen of the base class with *)
(* a TextInput, named field, between two buttons.                          *)
(***************************************************************************)
MaxWidth == 5      \* the TextInput is built with a width in 2..MaxWidth

\* the texts of at most n characters
TextsUpTo(n) == UNION {[1..k -> Printable] : k \in 0..n}

TextKeys ==
    SingleChars \cup {BACKSPACE, DELETE, TAB, SHIFT_TAB, ENTER, ESC, UP, DOWN, LEFT, RIGHT,
                      REFRESH, "F5"}

\* a subclass of TUIScreen whose __init__ appends the three widgets and
\* focuses the TextInput
TextScreen(width, initial_text) ==
    set_focus_by_index(
        [EmptyScreen EXCEPT
            !.children = <<"first", "field", "third">>,
            !.w = [first |-> Button(4, 2, "None"),
                   field |-> TextInput(4, 4, width, initial_text),
                   third |-> Button(4, 6, "None")]], 1)

TextInit ==
    /\ pc = "running"
    /\ raw_mode = TRUE
    /\ term = [InitialTerm EXCEPT !.cursor_shown = FALSE]
    /\ \E width \in 2..MaxWidth : \E initial_text \in TextsUpTo(width - 2) :
            screen_stack = <<TextScreen(width, initial_text)>>
    /\ current_screen = 1
    /\ taskmanager = NoTaskManager
    /\ log = EmptyLog

\* one turn of the run loop on the screen; the key, the focused widget and
\* the length of the text before the step are kept in the log
TextKey(key) ==
    /\ pc = "running"
    /\ SetState(process_input([State([save_fails |-> FALSE]) EXCEPT
                                  !.log = [EmptyLog EXCEPT
                                              !.key = key,
                                              !.focus = get_focused_widget(screen_stack[1]),
                                              !.index = Len(screen_stack[1].w.field.text)]],
                              key))

TextNext == \E key \in TextKeys : TextKey(key)

SpecText == TextInit /\ [][TextNext]_vars

(***************************************************************************)
(* Specification SpecForm: the run loop with a task form on top of the     *)
(* stack, opened the way the application opens it: the create-task form    *)
(* from the task view of a list, the edit-task form from the details of a  *)
(* task of any priority.  The user moves over the form and presses ENTER   *)
(* and SPACE on its checkboxes and buttons.                                *)
(***************************************************************************)
Priorities == {"priority_none", "priority_low", "priority_medium", "priority_high"}
FormKeys == {UP, DOWN, LEFT, RIGHT, TAB, SHIFT_TAB, ENTER, SPACE}

\* the stack under the create-task form of list 1
CreateTaskStack(tm) ==
    <<ListSelectionScreen(tm), FilterOptionsScreen(1), TaskViewScreen(tm, "TODAS", 1),
      CreateTaskScreen(1)>>

\* the stack under the edit-task form of task 1 of list 1
EditTaskStack(tm) ==
    <<ListSelectionScreen(tm), FilterOptionsScreen(1), TaskViewScreen(tm, "TODAS", 1),
      TaskDetailScreen(<<1, 1>>), EditTaskScreen(tm, <<1, 1>>)>>

FormInit ==
    /\ pc = "running"
    /\ raw_mode = TRUE
    /\ term = [InitialTerm EXCEPT !.cursor_shown = FALSE]
    /\ log = EmptyLog
    /\ \/ /\ taskmanager = LoadedDatabase
          /\ screen_stack = CreateTaskStack(LoadedDatabase)
       \/ \E prioridade \in 0..3 :
            /\ taskmanager = criar_tarefa(LoadedDatabase, 1, <<"a">>, prioridade, NENHUMA)
            /\ screen_stack = EditTaskStack(taskmanager)
    /\ current_screen = Len(screen_stack)

\* one turn of the run loop on the form; the log keeps the key, the widget
\* that was focused and whether it was checked (1) or not (0)
FormKey(key) ==
    LET s == screen_stack[Len(screen_stack)]
        name == get_focused_widget(s)
    IN  /\ pc = "running"
        /\ s.kind \in {"CreateTaskScreen", "EditTaskScreen"}
        /\ s.w[name].type \in {"DateInput", "Selector"} => key # ENTER
        /\ s.w[name].type = "TextInput" => key # SPACE
        /\ SetState(run_turn([State([save_fails |-> FALSE]) EXCEPT
                                !.log = [EmptyLog EXCEPT
                                            !.key = key,
                                            !.focus = name,
                                            !.index = IF s.w[name].checked THEN 1 ELSE 0]],
                             key))

FormNext == \E key \in FormKeys : FormKey(key)

SpecForm == FormInit /\ [][FormNext]_vars

(***************************************************************************)
(* Specification SpecLists: the list-selection screen over a task manager  *)
(* whose lists are created and removed, by DELETE and the dialogs of the   *)
(* screen and by direct calls of criar_lista_de_tarefas and                *)
(* remover_lista_de_tarefas.  A direct call is that of a screen pushed     *)
(* over the list-selection screen, which receives REFRESH as that screen   *)
(* is popped.                                                              *)
(***************************************************************************)
MaxNewLists == 2   \* lists are created only while _proximo_id_lista <= MaxNewLists + 1
ListTitles == {<<"a">>, <<"B">>, <<"b">>}

ListsInit ==
    /\ pc = "running"
    /\ raw_mode = TRUE
    /\ term = [InitialTerm EXCEPT !.cursor_shown = FALSE]
    /\ taskmanager = LoadedDatabase
    /\ screen_stack = <<ListSelectionScreen(LoadedDatabase)>>
    /\ current_screen = 1
    /\ log = EmptyLog

\* the manager was called and returned r; the list-selection screen is refreshed
ManagerReturns(method, lista_id, r) ==
    /\ taskmanager' = r.tm
    /\ screen_stack' = [screen_stack EXCEPT ![1] = refresh_lists(@, r.tm)]
    /\ log' = [EmptyLog EXCEPT !.key = method, !.index = lista_id, !.read = <<r.ok>>]
    /\ UNCHANGED <<pc, raw_mode, term, current_screen>>

CriarLista(titulo) ==
    /\ screen_stack[1].dialog.type = "None"
    /\ taskmanager.proximo_id_lista <= MaxNewLists + 1
    /\ ManagerReturns("criar_lista_de_tarefas", 0, criar_lista_de_tarefas(taskmanager, titulo))

RemoverLista(lista_id) ==
    /\ screen_stack[1].dialog.type = "None"
    /\ ManagerReturns("remover_lista_de_tarefas", lista_id,
                      remover_lista_de_tarefas(taskmanager, lista_id))

\* one turn of the run loop: UP, DOWN and DELETE on the list; a hosted dialog
\* is answered
ListsKey(key) ==
    /\ pc = "running"
    /\ IF screen_stack[1].dialog.type = "None"
       THEN key \in {UP, DOWN, DELETE}
       ELSE key \in {LEFT, TAB, ENTER, ESC}
    /\ SetState(run_turn([State([save_fails |-> FALSE]) EXCEPT
                            !.log = [EmptyLog EXCEPT !.key = key]], key))

ListsNext ==
    \/ \E titulo \in ListTitles : CriarLista(titulo)
    \/ \E lista_id \in 0..(MaxNewLists + 1) : RemoverLista(lista_id)
    \/ \E key \in {UP, DOWN, DELETE, LEFT, TAB, ENTER, ESC} : ListsKey(key)

SpecLists == ListsInit /\ [][ListsNext]_vars

(***************************************************************************)
(* Specification SpecPush: push_screen_stack called with every kind of     *)
(* screen the model builds and every type of payload, fitting or not, on   *)
(* the running application with task 1 in list 1.  TAG_INPUT, which takes  *)
(* no payload, is left out.                                                *)
(***************************************************************************)
MaxStack == 3  \* push_screen_stack is called while the stack holds fewer screens

SCREENS ==
    {"LIST_SELECTION", "CREATELIST", "EDIT_LIST", "CREATETASK", "TASK_DETAIL", "EDIT_TASK",
     "SEARCH_INPUT", "SEARCH_RESULTS", "FILTER_OPTIONS", "TASK_VIEW"}

\* None, a list, the three dicts the screens pass, and a (task, list) tuple
Payloads ==
    {NoData,
     Data("ListaDeTarefas", 1),
     Data("dict", [contexto_lista |-> 1]),
     Data("dict", [filtro_status |-> "TODAS", contexto_lista |-> 1]),
     Data("dict", [resultados |-> <<<<1, 1>>>>]),
     Data("tuple", <<1, 1>>)}

PushInit ==
    /\ pc = "running"
    /\ raw_mode = TRUE
    /\ term = [InitialTerm EXCEPT !.cursor_shown = FALSE]
    /\ log = EmptyLog
    /\ taskmanager = criar_tarefa(LoadedDatabase, 1, <<"a">>, 0, NENHUMA)
    /\ screen_stack = <<ListSelectionScreen(taskmanager)>>
    /\ current_screen = 1

PushScreenStack(screen_type, data) ==
    /\ pc = "running"
    /\ Len(screen_stack) < MaxStack
    /\ SetState(push_screen_stack(
            [State([save_fails |-> FALSE]) EXCEPT
                !.log = [EmptyLog EXCEPT !.key = "push_screen_stack",
                                         !.args = <<screen_type, data>>]],
            screen_type, data))

PushNext == \E screen_type \in SCREENS, data \in Payloads : PushScreenStack(screen_type, data)

SpecPush == PushInit /\ [][PushNext]_vars

(***************************************************************************)
(* Specification SpecTasks: the task manager called directly, from a       *)
(* fresh database or a loaded one whose task ids are unique.  Tasks are    *)
(* created with and without a recurrence, completed and reopened, moved,   *)
(* removed one by one and removed when completed.                          *)
(***************************************************************************)
MaxNewTaskId == 3  \* a task is given an id only while _proximo_id_tarefa <= MaxNewTaskId
DIARIA == 1

\* what the database file holds: nothing, two empty lists, or two lists with
\* the recurring task 2 left from an earlier session, task 1 being gone
DatabaseFiles ==
    {<<>>,
     <<<<ListaDeTarefas(1, <<"a">>), ListaDeTarefas(2, <<"b">>)>>>>,
     <<<<[ListaDeTarefas(1, <<"a">>) EXCEPT !.tarefas = <<Tarefa(2, <<"a">>, 0, DIARIA)>>],
         ListaDeTarefas(2, <<"b">>)>>>>}

\* the ids of the tasks of the manager
TaskIds(tm) == {AllPairs(tm.listas, 1)[i][1] : i \in 1..Len(AllPairs(tm.listas, 1))}

TasksInit ==
    /\ pc = "running"
    /\ raw_mode = FALSE
    /\ term = InitialTerm
    /\ screen_stack = <<>>
    /\ current_screen = 0
    /\ \E data \in DatabaseFiles : taskmanager = load_database(data)
    /\ log = [EmptyLog EXCEPT !.assigned = TaskIds(taskmanager)]

\* the method was called with args and left the manager tm
ManagerCalled(method, args, tm) ==
    /\ tm.proximo_id_tarefa <= MaxNewTaskId + 1
    /\ taskmanager' = tm
    /\ log' = [EmptyLog EXCEPT !.key = method, !.args = args,
                               !.assigned = log.assigned \cup TaskIds(tm)]
    /\ UNCHANGED <<pc, raw_mode, term, screen_stack, current_screen>>

CriarTarefa(lista_id, repeticao) ==
    ManagerCalled("criar_tarefa", <<lista_id>>,
                  criar_tarefa(taskmanager, lista_id, <<"a">>, 0, repeticao))

ToggleTarefaConcluida(lista_id, tarefa_id) ==
    ManagerCalled("toggle_tarefa_concluida", <<lista_id, tarefa_id>>,
                  toggle_tarefa_concluida(taskmanager, lista_id, tarefa_id))

MoverTarefa(tarefa_id, lista_origem_id, lista_destino_id) ==
    ManagerCalled("mover_tarefa", <<tarefa_id, lista_origem_id, lista_destino_id>>,
                  mover_tarefa(taskmanager, tarefa_id, lista_origem_id, lista_destino_id))

RemoverTarefa(lista_id, tarefa_id) ==
    ManagerCalled("remover_tarefa", <<lista_id, tarefa_id>>,
                  remover_tarefa(taskmanager, lista_id, tarefa_id))

RemoverTarefasConcluidas ==
    ManagerCalled("remover_tarefas_concluidas", <<>>, remover_tarefas_concluidas(taskmanager))

TasksNext ==
    \/ \E lista_id \in 1..2, repeticao \in {NENHUMA, DIARIA} : CriarTarefa(lista_id, repeticao)
    \/ \E lista_id \in 1..2, tarefa_id \in 1..MaxNewTaskId :
            \/ ToggleTarefaConcluida(lista_id, tarefa_id)
            \/ RemoverTarefa(lista_id, tarefa_id)
    \/ \E tarefa_id \in 1..MaxNewTaskId, origem \in 1..2, destino \in 1..2 :
            MoverTarefa(tarefa_id, origem, destino)
    \/ RemoverTarefasConcluidas

SpecTasks == TasksInit /\ [][TasksNext]_vars

(***************************************************************************)
(* Specification SpecCalendar: DateInput._max_day_in_month called for the  *)
(* month and year of a DateInput.                                          *)
(***************************************************************************)
MaxYear == 800     \* the years are 1..MaxYear, two periods of the leap-year rule

CalendarInit ==
    /\ pc = "running"
    /\ raw_mode = TRUE
    /\ term = [InitialTerm EXCEPT !.cursor_shown = FALSE]
    /\ \E month \in 1..12, year \in 1..MaxYear :
            screen_stack = <<WidgetScreen(DateInput(0, 0, <<1, month, year>>))>>
    /\ current_screen = 1
    /\ taskmanager = NoTaskManager
    /\ log = EmptyLog

\* self._max_day_in_month(self.month, self.year); the value is kept in the log
MaxDayInMonth ==
    /\ log.key = ""
    /\ log' = [EmptyLog EXCEPT
                  !.key = "max_day_in_month",
                  !.index = max_day_in_month(screen_stack[1].w.field.month,
                                             screen_stack[1].w.field.year)]
    /\ UNCHANGED <<pc, raw_mode, term, screen_stack, current_screen, taskmanager>>

SpecCalendar == CalendarInit /\ [][MaxDayInMonth]_vars

(***************************************************************************)
(* Specification SpecKeys: Terminal.read_key (POSIX branch) on the bytes   *)
(* of standard input.  A byte is a one-character string; Esc is \x1b and   *)
(* Del is \x7f.  A key event is a sequence: <<token>> for the token of the *)
(* Keys class or a plain character, the bytes read for raw text.           *)
(***************************************************************************)
Esc == "^["
Del == "^?"

MaxPresses == 2    \* key presses that queue up on standard input before a read

escape_sequences ==
    { <<<<Esc, "[", "A">>, UP>>, <<<<Esc, "[", "B">>, DOWN>>,
      <<<<Esc, "[", "C">>, RIGHT>>, <<<<Esc, "[", "D">>, LEFT>>,
      <<<<Esc, "[", "Z">>, SHIFT_TAB>>,
      <<<<Esc, "O", "A">>, UP>>, <<<<Esc, "O", "B">>, DOWN>>,
      <<<<Esc, "O", "C">>, RIGHT>>, <<<<Esc, "O", "D">>, LEFT>>,
      <<<<Esc, "O", "P">>, "F1">>, <<<<Esc, "O", "Q">>, "F2">>,
      <<<<Esc, "O", "R">>, "F3">>, <<<<Esc, "O", "S">>, "F4">>,
      <<<<Esc, "[", "1", "5", "~">>, "F5">>, <<<<Esc, "[", "1", "7", "~">>, "F6">>,
      <<<<Esc, "[", "1", "8", "~">>, "F7">>, <<<<Esc, "[", "1", "9", "~">>, "F8">>,
      <<<<Esc, "[", "2", "0", "~">>, "F9">>, <<<<Esc, "[", "2", "1", "~">>, "F10">>,
      <<<<Esc, "[", "2", "3", "~">>, "F11">>, <<<<Esc, "[", "2", "4", "~">>, "F12">>,
      <<<<Esc, "[", "H">>, "HOME">>, <<<<Esc, "[", "F">>, "END">>,
      <<<<Esc, "[", "1", "~">>, "HOME">>, <<<<Esc, "[", "4", "~">>, "END">>,
      <<<<Esc, "O", "H">>, "HOME">>, <<<<Esc, "O", "F">>, "END">>,
      <<<<Esc, "[", "5", "~">>, "PAGE_UP">>, <<<<Esc, "[", "6", "~">>, "PAGE_DOWN">>,
      <<<<Esc, "[", "2", "~">>, "INSERT">>, <<<<Esc, "[", "3", "~">>, DELETE>> }

\* the bytes one key press puts on standard input: the keys of the table, the
\* one-byte keys, and two sequences the table does not know
KeyPresses ==
    {e[1] : e \in escape_sequences}
        \cup {<<Esc>>, <<Del>>, <<"\n">>, <<"\t">>, <<"a">>}
        \cup {<<Esc, "[", "9", "9", "~">>, <<Esc, "a">>}

\* a bug to compare with: a sequence the table does not know is dropped
Get_drops_unknown(sequence) ==
    IF \E e \in escape_sequences : e[1] = sequence
    THEN <<(CHOOSE e \in escape_sequences : e[1] = sequence)[2]>>
    ELSE <<>>

\* self.escape_sequences.get(sequence, sequence)
Get(sequence) ==
    IF \E e \in escape_sequences : e[1] = sequence
    THEN <<(CHOOSE e \in escape_sequences : e[1] = sequence)[2]>>
    ELSE sequence

\* the exceptions the continuation loop catches
Caught == {"IOError", "TypeError"}

\* a bug to compare with: the flags of standard input are not put back
SetBlocking_skipped(t) == t

\* fcntl(stdin, F_SETFL, orig_fl & ~O_NONBLOCK)
SetBlocking(t) == [t EXCEPT !.nonblocking = FALSE]

\* fcntl(stdin, F_SETFL, orig_fl | O_NONBLOCK)
SetNonBlocking(t) == [t EXCEPT !.nonblocking = TRUE]

\* the continuation loop: n reads deliver a byte, then a read finds nothing
\* (or raises exception, when exception is not "")
Continuation(t, n, exception) ==
    [term |-> [t EXCEPT !.stdin = SubSeq(@, n + 1, Len(@))],
     sequence |-> <<Esc>> \o SubSeq(t.stdin, 1, n),
     propagates |-> exception # "" /\ exception \notin Caught]

\* what read_key returns for the sequence the loop has read
Resolve(sequence) == IF sequence = <<Esc>> THEN <<ESC>> ELSE Get(sequence)

\* read_key after self.stdin.read(1) returned Esc: c is what the loop did
EscapeKey(c) ==
    IF c.propagates
    THEN [term |-> c.term, key |-> <<>>, propagates |-> TRUE]
    ELSE [term |-> SetBlocking(c.term), key |-> Resolve(c.sequence), propagates |-> FALSE]

\* Terminal.read_key on a terminal with at least one byte waiting: n of the
\* bytes after the first are read by the continuation loop before it ends
read_key(t, n, exception) ==
    LET ch == Head(t.stdin)
        t1 == [t EXCEPT !.stdin = Tail(@)]
    IN  CASE ch = Esc -> EscapeKey(Continuation(SetNonBlocking(t1), n, exception))
          [] ch = Del -> [term |-> t1, key |-> <<BACKSPACE>>, propagates |-> FALSE]
          [] ch = "\n" -> [term |-> t1, key |-> <<ENTER>>, propagates |-> FALSE]
          [] ch = "\t" -> [term |-> t1, key |-> <<TAB>>, propagates |-> FALSE]
          [] OTHER -> [term |-> t1, key |-> <<ch>>, propagates |-> FALSE]

KeysInit ==
    /\ pc = "running"
    /\ raw_mode = TRUE
    /\ term = [InitialTerm EXCEPT !.cursor_shown = FALSE]
    /\ screen_stack = <<>>
    /\ current_screen = 0
    /\ taskmanager = NoTaskManager
    /\ log = EmptyLog

\* the user presses a key: its bytes are appended to standard input
Arrive(press) ==
    /\ pc = "running"
    /\ \/ term.stdin = <<>>
       \/ log.key = "arrive" /\ log.index < MaxPresses
    /\ term' = [term EXCEPT !.stdin = @ \o press]
    /\ log' = [EmptyLog EXCEPT !.key = "arrive",
                               !.index = IF term.stdin = <<>> THEN 1 ELSE log.index + 1]
    /\ UNCHANGED <<pc, raw_mode, screen_stack, current_screen, taskmanager>>

\* what a call of read_key leaves: r is what read_key returned
ReadKeyReturns(r, exception) ==
    /\ term' = r.term
    /\ pc' = IF r.propagates THEN "crashed" ELSE "running"
    /\ log' = [EmptyLog EXCEPT !.key = "read_key", !.read = r.key,
                               !.before = term.stdin, !.raised = exception # ""]
    /\ UNCHANGED <<raw_mode, screen_stack, current_screen, taskmanager>>

\* the run loop calls read_key; the first read blocks until a byte is there.
\* A continuation read raises a read error after n bytes, or none does and
\* the loop reads all the bytes that wait.
ReadKey ==
    /\ pc = "running"
    /\ term.stdin # <<>>
    /\ \/ ReadKeyReturns(read_key(term, Len(term.stdin) - 1, ""), "")
       \/ /\ Head(term.stdin) = Esc
          /\ \E n \in 0..(Len(term.stdin) - 1) :
                ReadKeyReturns(read_key(term, n, "IOError"), "IOError")

KeysNext ==
    \/ \E press \in KeyPresses : Arrive(press)
    \/ ReadKey

SpecKeys == KeysInit /\ [][KeysNext]_vars

(***************************************************************************)
(* Properties.                                                             *)
(***************************************************************************)
\* the members of the tab order of s that have is_focused = true
FocusedMembers(s) ==
    LET f == get_focusable_widgets(s)
    IN  {i \in 1..Len(f) : s.w[f[i]].is_focused}

\* C1: every screen of the stack, after its construction and after every
\* dispatched key (REFRESH and rebuilds of the widget set included), has exactly
\* one focused member of its tab order when the tab order is non-empty, and
\* none when it is empty.
C1_ExactlyOneFocused ==
    \A i \in 1..Len(screen_stack) :
        LET s == screen_stack[i]
        IN  IF get_focusable_widgets(s) = <<>>
            THEN FocusedMembers(s) = {}
            ELSE Cardinality(FocusedMembers(s)) = 1

\* C1 witness: a task view was rebuilt into an empty view (its old details
\* button is no longer in the tab order) and holds exactly one focused member
C1_Witness ==
    \E i \in 1..Len(screen_stack) :
        LET s == screen_stack[i]
        IN  /\ s.kind = "TaskViewScreen"
            /\ s.is_empty_view
            /\ "details_button" \in DOMAIN s.w
            /\ Cardinality(FocusedMembers(s)) = 1

\* the deliveries of the last step
Deliveries == {log.deliveries[i] : i \in 1..Len(log.deliveries)}

\* C2: while a dialog is hosted on a screen, a key dispatched to the screen
\* goes to the dialog only: the focused widget is not offered the key, no
\* directional, TAB/SHIFT_TAB or ESC navigation and no REFRESH or shortcut
\* handling of the screen runs, and as long as the screen stays on top its
\* focus stays where it was.
C2_DialogGetsEveryKey ==
    [][(pc = "running" /\ screen_stack[Len(screen_stack)].dialog.type # "None" /\ pc' # "crashed"
            /\ log'.key # "None")
        => /\ \A d \in {log'.deliveries[i] : i \in 1..Len(log'.deliveries)} :
                d.dialog => d.to_dialog /\ ~d.offered /\ d.nav = "none" /\ d.handled = "none"
           /\ \E i \in 1..Len(log'.deliveries) : log'.deliveries[i].dialog
           /\ Len(screen_stack') = Len(screen_stack)
                => get_focused_widget(screen_stack'[Len(screen_stack')])
                     = get_focused_widget(screen_stack[Len(screen_stack)])]_vars

\* C2 witness: TAB went to the confirmation dialog of a task view, which moved
\* its own button index and is still hosted
C2_Witness ==
    /\ pc = "running"
    /\ screen_stack[Len(screen_stack)].kind = "TaskViewScreen"
    /\ screen_stack[Len(screen_stack)].dialog.type = "ConfirmationDialog"
    /\ screen_stack[Len(screen_stack)].dialog.focus_index = 1
    /\ \E d \in Deliveries : d.dialog /\ d.to_dialog

\* the pops of the last step
Pops == {log.pops[i] : i \in 1..Len(log.pops)}

\* C3: a pop on a stack of two or more screens removes exactly the top screen,
\* leaves the screen beneath it active and makes it receive exactly one REFRESH.
\* The code does not keep this: see C3_Witness.
C3_PopRemovesExactlyTop ==
    \A p \in Pops : p.before >= 2 => p.after = p.before - 1 /\ p.refreshes = 1

\* C3 witness: the state the code reaches instead: a pop that exposed a
\* TaskDetailScreen returned with two screens removed
C3_Witness ==
    \E p \in Pops : p.exposed = "TaskDetailScreen" /\ p.after = p.before - 2

\* the run loop has ended: no step changes the state
NoStepAfterEnd == pc \in {"exited", "crashed"} => UNCHANGED vars

\* C4: a pop on a one-screen stack empties the stack, invokes the shutdown
\* once and ends the run loop; when no cleanup step raises, the database was
\* written, the cursor is shown and the terminal mode restored; after the end
\* no key is read, dispatched or rendered (no step changes the state).
C4_LastPopShutsDown ==
    /\ [](\A p \in Pops : p.before = 1 =>
            /\ p.after = 0
            /\ screen_stack = <<>>
            /\ log.quit = 1
            /\ pc \in {"exited", "crashed"}
            /\ pc = "exited" =>
                 term.saved /\ term.cursor_shown /\ ~raw_mode /\ term.restores = 1)
    /\ [][NoStepAfterEnd]_vars

\* C4 witness: the only screen was popped and the application has exited
C4_Witness ==
    /\ pc = "exited"
    /\ \E p \in Pops : p.before = 1 /\ p.after = 0
    /\ term.saved

\* C5: whenever the run loop is about to render or to dispatch a key the stack
\* is non-empty, and pop_screen_stack is never called on an empty stack.
C5_StackNeverEmptyWhileRunning ==
    /\ pc = "running" => screen_stack # <<>>
    /\ ~log.pop_empty

\* C5 witness: EditTaskScreen.save_changes has run (its two pops and the nested
\* pop of TaskDetailScreen) and the application is still running
C5_Witness ==
    /\ pc = "running"
    /\ Len(log.pops) = 3
    /\ \E p \in Pops : p.exposed = "TaskDetailScreen"

\* C6: on every exit path (quit, failure while building, failure while
\* dispatching or rendering) raw mode is released exactly once.  The code
\* does not keep this: a failure leaves the terminal in raw mode.
C6_RawModeReleasedOnEveryExit ==
    pc \in {"exited", "crashed"} => ~raw_mode /\ term.restores = 1

\* C6 witness: the application ended on a failure outside the shutdown while
\* the terminal was in raw mode
C6_Witness ==
    /\ pc = "crashed"
    /\ log.quit = 0
    /\ raw_mode
    /\ term.restores = 0

\* C7: the shutdown attempts every cleanup step: raw mode is disabled also
\* when writing the database raised.  The code does not keep this.
C7_ShutdownAttemptsEveryStep ==
    (log.quit > 0 /\ pc \in {"exited", "crashed"}) => ~raw_mode

\* C7 witness: the shutdown ran, writing the database raised, and nothing
\* after it was attempted
C7_Witness ==
    /\ pc = "crashed"
    /\ log.quit = 1
    /\ ~term.saved
    /\ raw_mode

\* C8: when the focused widget reports a key as consumed, none of the
\* default navigation steps of the screen (directional search, TAB/SHIFT_TAB
\* cycling, ESC-pop) runs for that key; a navigation step runs only for a key
\* that no earlier step consumed.
C8_ConsumedSuppressesNavigation ==
    \A d \in Deliveries :
        /\ (d.offered /\ d.consumed) => d.nav = "none"
        /\ d.nav # "none" => ~d.consumed

\* C8 witness: the status selector of the filter screen, in edit mode, consumed
\* a DOWN key (its index moved) and the focus did not leave it
C8_Witness ==
    /\ pc = "running"
    /\ screen_stack[Len(screen_stack)].kind = "FilterOptionsScreen"
    /\ screen_stack[Len(screen_stack)].w.filtro_status.being_edited
    /\ screen_stack[Len(screen_stack)].w.filtro_status.index = 1
    /\ screen_stack[Len(screen_stack)].w.filtro_status.is_focused
    /\ \E d \in Deliveries : d.offered /\ d.consumed /\ d.nav = "none"

\* w lies strictly in the direction of the arrow key from cur
InDirection(key, cur, w) ==
    CASE key = DOWN -> w.y - cur.y > 0
      [] key = UP -> w.y - cur.y < 0
      [] key = RIGHT -> w.x - cur.x > 0
      [] key = LEFT -> w.x - cur.x < 0
      [] OTHER -> FALSE

\* C9: an arrow key never moves the focus to a widget that is not strictly in
\* the requested direction from the widget focused before, and leaves the
\* focus where it is when no widget is in that direction.
C9_FocusMovesOnlyInDirection ==
    [][LET key == log'.key
           s == screen_stack[1]
           old == get_focused_widget(s)
           new == get_focused_widget(screen_stack'[1])
       IN  key \in {UP, DOWN, LEFT, RIGHT} =>
             /\ new # old => InDirection(key, s.w[old], s.w[new])
             /\ (\A n \in NavNames \ {old} : ~InDirection(key, s.w[old], s.w[n]))
                    => new = old]_vars

\* C9 witness: LEFT moved the focus although another widget lies to the right
C9_Witness ==
    LET s == screen_stack[1]
        new == get_focused_widget(s)
    IN  /\ log.key = LEFT
        /\ new # log.focus
        /\ s.w[new].x < s.w[log.focus].x
        /\ \E n \in NavNames : s.w[n].x > s.w[log.focus].x

\* (absolute perpendicular-axis offset, absolute primary-axis offset) of w from cur
Rank(key, cur, w) ==
    IF key \in {UP, DOWN}
    THEN <<Abs(w.x - cur.x), Abs(w.y - cur.y)>>
    ELSE <<Abs(w.y - cur.y), Abs(w.x - cur.x)>>

LexLess(a, b) == a[1] < b[1] \/ (a[1] = b[1] /\ a[2] < b[2])

\* C10: when widgets lie strictly in the direction of the arrow key, the focus
\* moves to one of them whose (perpendicular offset, primary offset) pair is
\* lexicographically minimal, for vertical and horizontal arrows alike.
C10_NearestByPerpendicularFirst ==
    [][LET key == log'.key
           s == screen_stack[1]
           old == get_focused_widget(s)
           new == get_focused_widget(screen_stack'[1])
           InDir == {n \in NavNames \ {old} : InDirection(key, s.w[old], s.w[n])}
       IN  (key \in {UP, DOWN, LEFT, RIGHT} /\ InDir # {}) =>
             /\ new \in InDir
             /\ \A n \in InDir :
                  ~LexLess(Rank(key, s.w[old], s.w[n]), Rank(key, s.w[old], s.w[new]))]_vars

\* C10 witness: DOWN chose a widget of the same column over a widget that is
\* nearer on the vertical axis but in another column
C10_Witness ==
    LET s == screen_stack[1]
        new == get_focused_widget(s)
        old == s.w[log.focus]
    IN  /\ log.key = DOWN
        /\ new # log.focus
        /\ s.w[new].x = old.x
        /\ \E n \in NavNames :
              /\ s.w[n].y > old.y
              /\ s.w[n].y < s.w[new].y
              /\ s.w[n].x # old.x

\* s after move_focus(+1) was called k times
RECURSIVE MovedTimes(_, _)
MovedTimes(s, k) == IF k = 0 THEN s ELSE move_focus(MovedTimes(s, k - 1), 1)

\* C11: on a screen whose tab order has N >= 1 widgets, one of them focused,
\* N calls of move_focus(+1) bring the focus back to the widget focused at
\* first, and the N widgets focused on the way are the N widgets of the tab
\* order, each once.
C11_MoveFocusCycles ==
    LET s == screen_stack[1]
        f == get_focusable_widgets(s)
        N == Len(f)
        visited == [k \in 1..N |-> get_focused_widget(MovedTimes(s, k))]
    IN  (pc = "running" /\ N >= 1 /\ get_focused_widget(s) # "None") =>
            /\ visited[N] = get_focused_widget(s)
            /\ {visited[k] : k \in 1..N} = {f[i] : i \in 1..N}
            /\ \A j, k \in 1..N : visited[j] = visited[k] => j = k

\* C11 witness: on a screen of three focusable widgets move_focus(+1) took
\* the focus from the last widget of the tab order around to the first
C11_Witness ==
    /\ Len(get_focusable_widgets(screen_stack[1])) = 3
    /\ log.key = "move_focus"
    /\ log.index = 1
    /\ log.focus = "third"
    /\ get_focused_widget(screen_stack[1]) = "first"

\* C12: set_focus_by_index(i), for any integer i, raises nothing; it leaves
\* exactly the widget at index max(0, min(i, len - 1)) of the tab order
\* focused, and with an empty tab order it changes nothing.
C12_SetFocusClamps ==
    [][log'.key = "set_focus_by_index" =>
        LET s == screen_stack[1]
            f == get_focusable_widgets(s)
            i == log'.index
            clamped == IF i < 0 THEN 0 ELSE IF i > Len(f) - 1 THEN Len(f) - 1 ELSE i
        IN  /\ pc' = "running"
            /\ f = <<>> => screen_stack' = screen_stack
            /\ f # <<>> => /\ get_focusable_widgets(screen_stack'[1]) = f
                           /\ FocusedMembers(screen_stack'[1]) = {clamped + 1}]_vars

\* C12 witness: set_focus_by_index was called with an index beyond the end
\* and with a negative index on a screen of two focusable widgets
C12_Witness ==
    /\ Len(get_focusable_widgets(screen_stack[1])) = 2
    /\ log.key = "set_focus_by_index"
    /\ log.index = MaxIndex
    /\ log.focus = get_focusable_widgets(screen_stack[1])[1]
    /\ get_focused_widget(screen_stack[1]) = get_focusable_widgets(screen_stack[1])[2]

\* the sequences of the escape-sequence table
KnownSequences == {e[1] : e \in escape_sequences}

\* C13: a call of read_key in which no read raises returns the token of the
\* table entry when the waiting bytes are exactly that entry's sequence
\* (ESC [ A gives UP, ESC [ 1 5 ~ gives F5), the ESC token when the only
\* waiting byte is ESC, and the waiting bytes themselves when they start with
\* ESC and are no entry of the table; nothing is raised.
C13_EscapeSequencesDecoded ==
    [][(log'.key = "read_key" /\ ~log'.raised) =>
        LET b == log'.before
        IN  /\ pc' = "running"
            /\ \A e \in escape_sequences : b = e[1] => log'.read = <<e[2]>>
            /\ b = <<Esc, "[", "A">> => log'.read = <<"UP_ARROW">>
            /\ b = <<Esc, "[", "1", "5", "~">> => log'.read = <<"F5">>
            /\ b = <<Esc>> => log'.read = <<"ESC">>
            /\ (Head(b) = Esc /\ Len(b) > 1 /\ b \notin KnownSequences) => log'.read = b]_vars

\* C13 witness: read_key has returned F5 for ESC [ 1 5 ~
C13_Witness ==
    /\ log.key = "read_key"
    /\ ~log.raised
    /\ log.before = <<Esc, "[", "1", "5", "~">>
    /\ log.read = <<"F5">>
    /\ term.stdin = <<>>

\* C14: when the waiting bytes are a sequence of the table followed by the
\* bytes of a further key press, a call of read_key in which no read raises
\* returns the token of the first sequence and leaves the bytes of the
\* further key press waiting.
C14_OneKeyPerCall ==
    [][(log'.key = "read_key" /\ ~log'.raised) =>
        \A e \in escape_sequences : \A press \in KeyPresses :
            log'.before = e[1] \o press =>
                /\ log'.read = <<e[2]>>
                /\ term'.stdin = press]_vars

\* C14 witness: two arrow keys waited, and one call of read_key has taken the
\* bytes of both and returned them as one raw text
C14_Witness ==
    /\ log.key = "read_key"
    /\ ~log.raised
    /\ log.before = <<Esc, "[", "A", Esc, "[", "B">>
    /\ log.read = <<Esc, "[", "A", Esc, "[", "B">>
    /\ term.stdin = <<>>

\* C15: a call of read_key in which a continuation read raises a read error
\* raises nothing itself; it returns what the bytes read so far resolve to
\* (the ESC token for the introducer alone, the token of the table entry, or
\* the bytes as raw text), the bytes not read stay waiting, and standard
\* input is in blocking mode afterwards.
C15_ReadErrorNotPropagated ==
    [][(log'.key = "read_key" /\ log'.raised) =>
        LET b == log'.before
            got == SubSeq(b, 1, Len(b) - Len(term'.stdin))
        IN  /\ pc' = "running"
            /\ ~term'.nonblocking
            /\ b = got \o term'.stdin
            /\ Len(got) >= 1
            /\ log'.read = IF got = <<Esc>> THEN <<"ESC">>
                           ELSE IF got \in KnownSequences
                                THEN <<(CHOOSE e \in escape_sequences : e[1] = got)[2]>>
                                ELSE got]_vars

\* C15 witness: of ESC [ A the loop had read ESC [ when a read raised;
\* read_key returned the two bytes as raw text and A still waits
C15_Witness ==
    /\ log.key = "read_key"
    /\ log.raised
    /\ log.before = <<Esc, "[", "A">>
    /\ log.read = <<Esc, "[">>
    /\ term.stdin = <<"A">>
    /\ ~term.nonblocking
    /\ pc = "running"

\* the calendar: the days of a month of a year
DaysIn(mo, y) ==
    CASE mo \in {4, 6, 9, 11} -> 30
      [] mo = 2 -> IF (y % 4 = 0 /\ y % 100 # 0) \/ y % 400 = 0 THEN 29 ELSE 28
      [] OTHER -> 31

ValidDate(w) ==
    /\ w.year >= 1
    /\ w.month \in 1..12
    /\ w.day \in 1..DaysIn(w.month, w.year)

\* C16: when a focused DateInput in edit mode receives UP or DOWN with the
\* month or the year field selected, the day becomes the smaller of the
\* previous day and the number of days of the new month in the new year; and
\* after every key the widget holds a valid calendar date.
C16_DayClampedToMonth ==
    [][(pc' = "running" /\ screen_stack[1].w.field.type = "DateInput") =>
        LET w == screen_stack[1].w.field
            v == screen_stack'[1].w.field
        IN  /\ ValidDate(v)
            /\ (w.is_focused /\ w.being_edited /\ w.index \in {1, 2}
                    /\ log'.key \in {UP, DOWN}) =>
                  /\ v.day = IF w.day < DaysIn(v.month, v.year)
                              THEN w.day ELSE DaysIn(v.month, v.year)
                  /\ w.index = 1 => v.month # w.month /\ v.year = w.year
                  /\ w.index = 2 => v.month = w.month]_vars

\* C16 witness: UP on the year field of 29 February 2024 has given 28
\* February 2025
C16_Witness ==
    /\ pc = "running"
    /\ screen_stack[1].w.field.type = "DateInput"
    /\ screen_stack[1].w.field.being_edited
    /\ screen_stack[1].w.field.index = 2
    /\ log.key = UP
    /\ log.index = 29
    /\ screen_stack[1].w.field.day = 28
    /\ screen_stack[1].w.field.month = 2
    /\ screen_stack[1].w.field.year = 2025

\* C17: when a focused IntInput in edit mode whose min and max are both set
\* receives UP at value = max, the value becomes min, and when it receives
\* DOWN at value = min, the value becomes max.
C17_IntInputWraps ==
    [][(pc' = "running" /\ screen_stack[1].w.field.type = "IntInput") =>
        LET w == screen_stack[1].w.field
            v == screen_stack'[1].w.field
        IN  (w.is_focused /\ w.being_edited /\ w.min # <<>> /\ w.max # <<>>) =>
                /\ (log'.key = UP /\ w.value = w.max[1]) => v.value = w.min[1]
                /\ (log'.key = DOWN /\ w.value = w.min[1]) => v.value = w.max[1]]_vars

\* C17 witness: UP at value = max has left the value at max
C17_Witness ==
    /\ pc = "running"
    /\ screen_stack[1].w.field.type = "IntInput"
    /\ screen_stack[1].w.field.being_edited
    /\ screen_stack[1].w.field.min = <<0>>
    /\ screen_stack[1].w.field.max = <<MaxValue>>
    /\ log.key = UP
    /\ log.index = MaxValue
    /\ screen_stack[1].w.field.value = MaxValue

\* C18: on every screen of the stack a widget whose edit mode is active is
\* the focused widget of its screen.
C18_EditedWidgetIsFocused ==
    \A i \in 1..Len(screen_stack) :
        \A name \in DOMAIN screen_stack[i].w :
            screen_stack[i].w[name].being_edited =>
                /\ screen_stack[i].w[name].is_focused
                /\ get_focused_widget(screen_stack[i]) = name

\* C18 witness: TAB has taken the focus from a DateInput in edit mode to the
\* button, and the DateInput is still in edit mode
C18_Witness ==
    /\ pc = "running"
    /\ screen_stack[1].w.field.type = "DateInput"
    /\ screen_stack[1].w.field.being_edited
    /\ ~screen_stack[1].w.field.is_focused
    /\ log.key = TAB
    /\ log.focus = "field"
    /\ get_focused_widget(screen_stack[1]) = "button"

\* C19: for a focused DateInput, Selector or IntInput, ENTER in browse mode
\* turns edit mode on, ENTER and ESC in edit mode turn it off; in all three
\* cases nothing else changes: the stack keeps its screens, the focus stays
\* and the value is the one before.
C19_ModeTransitions ==
    [][(log'.key \in {ENTER, ESC} /\ screen_stack[1].w.field.is_focused
            /\ (log'.key = ESC => screen_stack[1].w.field.being_edited)) =>
        /\ pc' = "running"
        /\ screen_stack' =
              [screen_stack EXCEPT ![1].w.field.being_edited = ~@]]_vars

\* C19 witness: ESC has taken a Selector out of edit mode; the screen is
\* still on the stack and the Selector focused
C19_Witness ==
    /\ pc = "running"
    /\ Len(screen_stack) = 1
    /\ screen_stack[1].w.field.type = "Selector"
    /\ screen_stack[1].w.field.is_focused
    /\ ~screen_stack[1].w.field.being_edited
    /\ screen_stack[1].w.field.index = 1
    /\ log.key = ESC
    /\ log.index = 1

\* C20: after every UP or DOWN handled by a focused VerticalList of height
\* H >= 3 with at least one child, scroll_offset >= 0 and the selected index
\* lies in scroll_offset .. scroll_offset + H - 3, the indexes render shows.
C20_SelectionInsideWindow ==
    [][(log'.key \in {UP, DOWN}
            /\ screen_stack[1].w.list_widget.is_focused
            /\ screen_stack[1].w.list_widget.height >= 3
            /\ Len(screen_stack[1].w.list_widget.items) >= 1) =>
        LET v == screen_stack'[1].w.list_widget
            selected == IF v.index < Len(v.items) THEN v.index ELSE Len(v.items) - 1
        IN  /\ v.scroll_offset >= 0
            /\ v.scroll_offset <= selected
            /\ selected <= v.scroll_offset + v.height - 3
            /\ selected \in 0..(Len(v.items) - 1)]_vars

\* C20 witness: the list was scrolled down to offset 4 and then refilled
\* with two children; UP has brought the window back over the selection
C20_Witness ==
    /\ log.key = UP
    /\ log.index = 4
    /\ Len(screen_stack[1].w.list_widget.items) = 2
    /\ screen_stack[1].w.list_widget.height = 3
    /\ screen_stack[1].w.list_widget.index = 0
    /\ screen_stack[1].w.list_widget.scroll_offset = 0

\* the list w after DOWN was handled k times
RECURSIVE MovedDown(_, _)
MovedDown(w, k) == IF k = 0 THEN w ELSE VerticalList_move_focus(MovedDown(w, k - 1), 1)

\* C21: for a list of height H with N > H - 2 children whose first child is
\* selected, N - 1 times DOWN selects the last child and so does one UP
\* (wrapping around), and in both cases scroll_offset is N - (H - 2).
C21_LastChildScrollOffset ==
    LET w == screen_stack[1].w.list_widget
        N == Len(w.items)
        down == MovedDown(w, N - 1)
        up == VerticalList_move_focus(w, -1)
    IN  (N >= 1 /\ N > w.height - 2 /\ ListFocusIndex(w) = 0) =>
            /\ ListFocusIndex(down) = N - 1
            /\ down.scroll_offset = N - (w.height - 2)
            /\ ListFocusIndex(up) = N - 1
            /\ up.scroll_offset = N - (w.height - 2)

\* C21 witness: UP on the first of six children of a list of height 5 has
\* selected the last child and moved the window from offset 0 to offset 3
C21_Witness ==
    /\ log.key = UP
    /\ log.index = 0
    /\ screen_stack[1].w.list_widget.height = 5
    /\ Len(screen_stack[1].w.list_widget.items) = 6
    /\ screen_stack[1].w.list_widget.index = 5
    /\ screen_stack[1].w.list_widget.scroll_offset = 3

\* what list.focus_index reads
Selected(w) ==
    IF Len(w.items) = 0 THEN 0
    ELSE IF w.index < Len(w.items) - 1 THEN w.index ELSE Len(w.items) - 1

\* C22: after every UP or DOWN, every assignment of an integer to focus_index
\* and every refill of the list, focus_index reads a value in 0 .. count - 1
\* when the list has children and 0 when it has none; UP with the first child
\* selected selects the last child and DOWN with the last child selected
\* selects the first.
C22_FocusIndexInRange ==
    [][LET w == screen_stack[1].w.list_widget
           v == screen_stack'[1].w.list_widget
           N == Len(w.items)
       IN  /\ Len(v.items) = 0 => Selected(v) = 0
           /\ Len(v.items) > 0 => Selected(v) \in 0..(Len(v.items) - 1)
           /\ (log'.key = UP /\ N > 0 /\ Selected(w) = 0) => Selected(v) = N - 1
           /\ (log'.key = DOWN /\ N > 0 /\ Selected(w) = N - 1) => Selected(v) = 0]_vars

\* C22 witness: -2 was assigned to the focus_index of a list of three
\* children and the first child is selected
C22_Witness ==
    /\ log.key = "focus_index"
    /\ log.index = -2
    /\ Len(screen_stack[1].w.list_widget.items) = 3
    /\ screen_stack[1].w.list_widget.index = 0

\* C23: a key delivered to a screen whose focused widget is a TextInput of
\* width W holding at most W - 2 characters leaves at most W - 2 characters;
\* a printable character is appended when the text is shorter than W - 2 and
\* dropped otherwise, BACKSPACE removes the last character and leaves an empty
\* text empty, and every other key (symbolic keys, REFRESH, raw text, control
\* characters) leaves the text as it is.
C23_TextWithinWidth ==
    [][(screen_stack[1].w.field.is_focused /\ screen_stack' # <<>>) =>
        LET w == screen_stack[1].w.field
            text == screen_stack'[1].w.field.text
            key == log'.key
        IN  /\ Len(text) <= w.width - 2
            /\ key \in {"a", " "} =>
                    text = IF Len(w.text) < w.width - 2 THEN w.text \o <<key>> ELSE w.text
            /\ key = "BACKSPACE" =>
                    text = IF w.text = <<>> THEN <<>>
                           ELSE [i \in 1..(Len(w.text) - 1) |-> w.text[i]]
            /\ key \notin {"a", " ", "BACKSPACE"} => text = w.text]_vars

\* C23 witness: a printable character was typed into a TextInput of width 5
\* that already held three characters, and the text is still three long
C23_Witness ==
    /\ pc = "running"
    /\ log.key = "a"
    /\ log.focus = "field"
    /\ log.index = 3
    /\ screen_stack[1].w.field.width = 5
    /\ Len(screen_stack[1].w.field.text) = 3

\* C30: a focused TextInput reports every key it is offered as not consumed;
\* TAB moves the focus from it to the next widget of the tab order and
\* SHIFT_TAB to the previous one, and both leave its text as it is.
C30_TextInputConsumesNothing ==
    [][(screen_stack[1].w.field.is_focused /\ screen_stack' # <<>>) =>
        /\ Len(log'.deliveries) = 1
        /\ log'.deliveries[1].offered
        /\ ~log'.deliveries[1].consumed
        /\ log'.key = "TAB" =>
              /\ get_focused_widget(screen_stack'[1]) = "third"
              /\ screen_stack'[1].w.field.text = screen_stack[1].w.field.text
        /\ log'.key = "SHIFT_TAB" =>
              /\ get_focused_widget(screen_stack'[1]) = "first"
              /\ screen_stack'[1].w.field.text = screen_stack[1].w.field.text]_vars

\* C30 witness: SHIFT_TAB has taken the focus from the TextInput, which
\* holds two characters, to the button before it
C30_Witness ==
    /\ pc = "running"
    /\ log.key = "SHIFT_TAB"
    /\ log.focus = "field"
    /\ log.index = 2
    /\ Len(screen_stack[1].w.field.text) = 2
    /\ get_focused_widget(screen_stack[1]) = "first"

\* C24: run() renders the active screen once before the first key is read;
\* a turn of the loop in which a key was read dispatches the key once, to the
\* screen active as the key was read (whatever else is delivered in the turn
\* is a REFRESH signal), and, when the loop goes on, renders once, the screen
\* active after the dispatch; a turn in which the read gave no event
\* dispatches nothing, renders nothing and changes nothing.
C24_OneDispatchOneRender ==
    [][/\ (pc = "start" /\ pc' = "running") =>
            log'.renders = <<current_screen'>> /\ log'.deliveries = <<>>
       /\ (pc = "running" /\ log'.key = "None") =>
            /\ log'.deliveries = <<>>
            /\ log'.renders = <<>>
            /\ screen_stack' = screen_stack
            /\ current_screen' = current_screen
            /\ taskmanager' = taskmanager
       /\ (pc = "running" /\ pc' = "running" /\ log'.key # "None") =>
            /\ Cardinality({i \in 1..Len(log'.deliveries) : ~log'.deliveries[i].refresh}) = 1
            /\ \A i \in 1..Len(log'.deliveries) :
                    ~log'.deliveries[i].refresh => log'.deliveries[i].depth = current_screen
            /\ log'.renders = <<current_screen'>>
            /\ current_screen' = Len(screen_stack')]_vars

\* C24 witness: a key was dispatched to the third screen of the stack, the
\* screen popped itself, and the turn ended with one render of the second
C24_Witness ==
    /\ pc = "running"
    /\ Len(log.deliveries) = 2
    /\ log.deliveries[1].depth = 3
    /\ ~log.deliveries[1].refresh
    /\ log.deliveries[2].refresh
    /\ log.renders = <<2>>
    /\ current_screen = 2

\* C25: while the application runs current_screen is the last element of
\* screen_stack, after every push and every pop, nested pops included; a
\* push leaves the screens below as they were and makes the new top active.
C25_CurrentScreenIsTop ==
    [][pc' = "running" =>
        /\ Len(screen_stack') >= 1
        /\ current_screen' = Len(screen_stack')
        /\ Len(screen_stack') > Len(screen_stack) =>
                /\ Len(screen_stack') = Len(screen_stack) + 1
                /\ \A i \in 1..(Len(screen_stack) - 1) : screen_stack'[i] = screen_stack[i]
                /\ \A d \in {log'.deliveries[i] : i \in 1..Len(log'.deliveries)} :
                        d.depth <= Len(screen_stack)]_vars

\* C25 witness: one pop that removed two screens (a nested pop) has left the
\* third screen of a stack of five active
C25_Witness ==
    /\ pc = "running"
    /\ \E i \in 1..Len(log.pops) : log.pops[i].before = 5 /\ log.pops[i].after = 3
    /\ Len(screen_stack) = 3
    /\ current_screen = 3

\* C26: for every month in 1..12 and every year >= 1, _max_day_in_month is
\* 29 for February when the year is divisible by 4 and either not divisible
\* by 100 or divisible by 400, 28 for February otherwise, 30 for April, June,
\* September and November and 31 for the other months.
C26_MaxDayInMonth ==
    log.key = "max_day_in_month" =>
        LET month == screen_stack[1].w.field.month
            year == screen_stack[1].w.field.year
            leap == year % 4 = 0 /\ (year % 100 # 0 \/ year % 400 = 0)
        IN  /\ (month = 2 /\ leap) => log.index = 29
            /\ (month = 2 /\ ~leap) => log.index = 28
            /\ month \in {4, 6, 9, 11} => log.index = 30
            /\ month \in {1, 3, 5, 7, 8, 10, 12} => log.index = 31

\* C26 witness: _max_day_in_month has returned 28 for February of the year
\* 100, which is divisible by 4 and by 100 but not by 400
C26_Witness ==
    /\ log.key = "max_day_in_month"
    /\ screen_stack[1].w.field.month = 2
    /\ screen_stack[1].w.field.year = 100
    /\ log.index = 28

\* C27: for a focused DateInput in edit mode, UP on the last day of the
\* month gives day 1 and DOWN on day 1 the last day of the month; UP on month
\* 12 gives month 1 and DOWN on month 1 month 12, and otherwise the month
\* moves by one; UP adds one to the year and DOWN takes one off, except that
\* DOWN leaves the year 1 as it is, so that the year is never below 1.
C27_DateFieldsWrap ==
    [][(pc' = "running" /\ screen_stack[1].w.field.type = "DateInput"
            /\ screen_stack[1].w.field.is_focused
            /\ screen_stack[1].w.field.being_edited) =>
        LET w == screen_stack[1].w.field
            v == screen_stack'[1].w.field
            up == log'.key = "UP_ARROW"
            down == log'.key = "DOWN_ARROW"
        IN  /\ v.year >= 1
            /\ (w.index = 0 /\ up /\ w.day = DaysIn(w.month, w.year)) => v.day = 1
            /\ (w.index = 0 /\ down /\ w.day = 1) => v.day = DaysIn(w.month, w.year)
            /\ (w.index = 0 /\ (up \/ down)) => v.month = w.month /\ v.year = w.year
            /\ (w.index = 1 /\ up) => v.month = IF w.month = 12 THEN 1 ELSE w.month + 1
            /\ (w.index = 1 /\ down) => v.month = IF w.month = 1 THEN 12 ELSE w.month - 1
            /\ (w.index = 2 /\ up) => v.year = w.year + 1
            /\ (w.index = 2 /\ down) => v.year = IF w.year = 1 THEN 1 ELSE w.year - 1]_vars

\* C27 witness: DOWN on the month field has gone from January to December,
\* the day being 31
C27_Witness ==
    /\ pc = "running"
    /\ screen_stack[1].w.field.type = "DateInput"
    /\ screen_stack[1].w.field.being_edited
    /\ screen_stack[1].w.field.index = 1
    /\ log.key = DOWN
    /\ log.index = 31
    /\ screen_stack[1].w.field.month = 12
    /\ screen_stack[1].w.field.day = 31

\* the Selector w after it was given key1 and then key2
SelectorAfter(key1, key2) ==
    LET st == State([save_fails |-> FALSE])
    IN  Top(Selector_process_input(
                Selector_process_input(st, "field", key1).st, "field", key2).st).w.field

\* C28: the selected_index of a Selector is within 0 .. len(options) - 1 from
\* its construction on; for a focused Selector in edit mode UP takes one off
\* and DOWN adds one, both modulo len(options), and each undoes the other;
\* outside edit mode no key changes selected_index.
C28_SelectorIndexInRange ==
    [][(pc' = "running" /\ screen_stack[1].w.field.type = "Selector") =>
        LET w == screen_stack[1].w.field
            v == screen_stack'[1].w.field
        IN  /\ w.index \in 0..(w.n - 1)
            /\ v.index \in 0..(v.n - 1)
            /\ (w.is_focused /\ w.being_edited) =>
                  /\ log'.key = "UP_ARROW" =>
                        v.index = IF w.index = 0 THEN w.n - 1 ELSE w.index - 1
                  /\ log'.key = "DOWN_ARROW" =>
                        v.index = IF w.index = w.n - 1 THEN 0 ELSE w.index + 1
                  /\ SelectorAfter("UP_ARROW", "DOWN_ARROW").index = w.index
                  /\ SelectorAfter("DOWN_ARROW", "UP_ARROW").index = w.index
            /\ ~w.being_edited => v.index = w.index]_vars

\* C28 witness: UP in edit mode has taken the Selector from its first option
\* to its last
C28_Witness ==
    /\ pc = "running"
    /\ screen_stack[1].w.field.type = "Selector"
    /\ screen_stack[1].w.field.being_edited
    /\ log.key = UP
    /\ log.index = 0
    /\ screen_stack[1].w.field.index = 2

\* C29: a focused DateInput in browse mode consumes LEFT and RIGHT, which
\* move focus_index by one modulo 3 and leave the focus of the screen where
\* it is; it does not consume UP and DOWN, and a focused Selector or IntInput
\* in browse mode consumes none of the four arrow keys, so that the screen's
\* directional navigation runs for them.
C29_BrowseArrows ==
    [][(pc' = "running" /\ screen_stack[1].w.field.is_focused
            /\ ~screen_stack[1].w.field.being_edited
            /\ log'.key \in {"UP_ARROW", "DOWN_ARROW", "LEFT_ARROW", "RIGHT_ARROW"}) =>
        LET w == screen_stack[1].w.field
            v == screen_stack'[1].w.field
            d == log'.deliveries[1]
        IN  /\ Len(log'.deliveries) = 1
            /\ d.offered
            /\ v.index \in {0, 1, 2}
            /\ IF w.type = "DateInput" /\ log'.key \in {"LEFT_ARROW", "RIGHT_ARROW"}
               THEN /\ d.consumed
                    /\ d.nav = "none"
                    /\ v.is_focused
                    /\ v.index = IF log'.key = "LEFT_ARROW"
                                  THEN (IF w.index = 0 THEN 2 ELSE w.index - 1)
                                  ELSE (IF w.index = 2 THEN 0 ELSE w.index + 1)
               ELSE /\ ~d.consumed
                    /\ d.nav = "dir"
                    /\ v.index = w.index]_vars

\* C29 witness: LEFT in browse mode has taken a DateInput from the day field
\* to the year field and the DateInput still has the focus
C29_Witness ==
    /\ pc = "running"
    /\ screen_stack[1].w.field.type = "DateInput"
    /\ ~screen_stack[1].w.field.being_edited
    /\ screen_stack[1].w.field.is_focused
    /\ log.key = LEFT
    /\ log.focus = "field"
    /\ screen_stack[1].w.field.index = 2

\* C31: a render pass of a screen that hosts a dialog draws every child of
\* the screen and after them the dialog, which is the last thing drawn.
\* The code does not keep this: see C31_Witness.
C31_DialogDrawnLast ==
    (pc = "running" /\ log.renders # <<>>
        /\ screen_stack[Len(screen_stack)].dialog.type # "None") =>
            log.drawn = ScreenChildren(screen_stack[Len(screen_stack)]) \o <<"dialog">>

\* C31 witness: the task view hosts its confirmation dialog and was rendered
\* by the inherited TUIScreen.render: its children were drawn, the dialog was not
C31_Witness ==
    /\ pc = "running"
    /\ log.renders # <<>>
    /\ screen_stack[Len(screen_stack)].kind = "TaskViewScreen"
    /\ screen_stack[Len(screen_stack)].dialog.type = "ConfirmationDialog"
    /\ log.drawn = ScreenChildren(screen_stack[Len(screen_stack)])
    /\ \A i \in 1..Len(log.drawn) : log.drawn[i] # "dialog"

\* the dialog of the list-selection screen is drawn, after the children
ListSelectionDialogDrawnLast ==
    (pc = "running" /\ log.renders # <<>>
        /\ screen_stack[Len(screen_stack)].kind = "ListSelectionScreen"
        /\ screen_stack[Len(screen_stack)].dialog.type # "None") =>
            log.drawn = ScreenChildren(screen_stack[Len(screen_stack)]) \o <<"dialog">>

\* the state a render must leave alone: everything of a widget but what the
\* render itself wrote for display
LogicalWidget(w) == [w EXCEPT !.shown = <<>>]

\* the navigation stack with every widget of every screen, the active screen
\* and the task data
Logical(st) ==
    [screen_stack |-> [i \in 1..Len(st.screen_stack) |->
                        [st.screen_stack[i] EXCEPT !.w =
                            [name \in DOMAIN @ |-> LogicalWidget(@[name])]]],
     current_screen |-> st.current_screen,
     taskmanager |-> st.taskmanager,
     pc |-> st.pc,
     raw_mode |-> st.raw_mode]

\* st is the application as process_input left it, about to be rendered
RenderKeeps(st) == st.pc = "running" => Logical(render(st)) = Logical(st)

\* C32: the render that follows the dispatch of a key changes nothing of the
\* logical state: the navigation stack, the active screen, the focused widget,
\* the value and the mode of every widget, the selected index and the scroll
\* offset of the lists, the hosted dialog and the task data stay as
\* process_input left them.
C32_RenderChangesNoState ==
    \A key \in Keys :
        (pc = "running" /\ UserPresses(key)) =>
            RenderKeeps(process_input([State([save_fails |-> FALSE]) EXCEPT !.log = EmptyLog],
                                      key))

\* C32 witness: the create-task form was rendered: the render wrote the text
\* of the date and of the checked priority, and the form is as it was built
C32_Witness ==
    /\ pc = "running"
    /\ log.renders # <<>>
    /\ screen_stack[Len(screen_stack)].kind = "CreateTaskScreen"
    /\ screen_stack[Len(screen_stack)].w.dateinput.shown = <<1, 1, 2024, 0>>
    /\ screen_stack[Len(screen_stack)].w.priority_none.shown = <<1>>
    /\ screen_stack[Len(screen_stack)].w.priority_none.checked
    /\ screen_stack[Len(screen_stack)].w.title_input.is_focused

\* the confirmation dialog the active screen hosts is given the key
DialogAnswers(st, key) ==
    LET r == ConfirmationDialog_process_input(st, key)
        index == Top(st).dialog.focus_index
        toggled == r.st.screen_stack = SetTop(st, [Top(st) EXCEPT !.dialog.focus_index = 1 - index]).screen_stack
        confirmed == r.st.log.confirms - st.log.confirms
        cancelled == r.st.log.cancels - st.log.cancels
    IN  /\ r.result
        /\ key \in {LEFT, RIGHT, TAB} => toggled /\ confirmed = 0 /\ cancelled = 0
        /\ key = ENTER /\ index = 0 => confirmed = 1 /\ cancelled = 0
        /\ key = ENTER /\ index # 0 => confirmed = 0 /\ cancelled = 1
        /\ key = ESC => confirmed = 0 /\ cancelled = 1
        /\ key \notin {LEFT, RIGHT, TAB, ENTER, ESC} =>
                confirmed = 0 /\ cancelled = 0 /\ r.st = st

\* C33: the button index of a hosted ConfirmationDialog is 0 or 1 and is 0
\* when the dialog is opened; LEFT, RIGHT and TAB toggle it; ENTER calls
\* on_confirm once at index 0 and on_cancel once at index 1; ESC calls
\* on_cancel once; no other key calls a callback or changes anything; every
\* key is reported consumed.
C33_ConfirmationDialog ==
    /\ [](pc = "running" /\ screen_stack[Len(screen_stack)].dialog.type = "ConfirmationDialog"
            => /\ screen_stack[Len(screen_stack)].dialog.focus_index \in {0, 1}
               /\ \A key \in Keys \cup {SPACE, REFRESH} :
                    DialogAnswers(State([save_fails |-> FALSE]), key))
    /\ [][(pc = "running" /\ pc' = "running"
            /\ screen_stack[Len(screen_stack)].dialog.type # "ConfirmationDialog"
            /\ screen_stack'[Len(screen_stack')].dialog.type = "ConfirmationDialog")
          => screen_stack'[Len(screen_stack')].dialog.focus_index = 0]_vars

\* C33 witness: ENTER on the confirm button of the task view's dialog has
\* called on_confirm once and on_cancel not at all; the view was popped
C33_Witness ==
    /\ log.confirms = 1
    /\ log.cancels = 0
    /\ log.pops # <<>>
    /\ \E i \in 1..Len(log.deliveries) : log.deliveries[i].to_dialog

\* the priority checkboxes of the form s that are checked
CheckedPriorities(s) == {name \in Priorities : s.w[name].checked}

\* C34: on the create-task and the edit-task screen exactly one of the four
\* priority checkboxes is checked in every state; ENTER or SPACE on a focused
\* priority checkbox leaves exactly that one checked, also when it was
\* checked before.
C34_OnePriorityChecked ==
    /\ [](\A i \in 1..Len(screen_stack) :
            screen_stack[i].kind \in {"CreateTaskScreen", "EditTaskScreen"} =>
                Cardinality(CheckedPriorities(screen_stack[i])) = 1)
    /\ [][(log'.key \in {ENTER, SPACE} /\ log'.focus \in Priorities) =>
            /\ Len(screen_stack') = Len(screen_stack)
            /\ CheckedPriorities(screen_stack'[Len(screen_stack')]) = {log'.focus}
            /\ get_focused_widget(screen_stack'[Len(screen_stack')]) = log'.focus]_vars

\* C34 witness: SPACE on the checked, focused "Alta" of the edit form of a
\* task of high priority: it is still the one checked box
C34_Witness ==
    /\ screen_stack[Len(screen_stack)].kind = "EditTaskScreen"
    /\ log.key = SPACE
    /\ log.focus = "priority_high"
    /\ log.index = 1
    /\ CheckedPriorities(screen_stack[Len(screen_stack)]) = {"priority_high"}

\* C35: the manager, which starts with a list, holds at least one list after
\* any creations and deletions; with a single list remover_lista_de_tarefas
\* returns False and DELETE on the list-selection screen opens the alert,
\* and neither changes the lists.
C35_LastListStays ==
    /\ [](Len(taskmanager.listas) >= 1)
    /\ [][(Len(taskmanager.listas) = 1 /\ log'.key = "remover_lista_de_tarefas") =>
            log'.read = <<FALSE>> /\ taskmanager' = taskmanager]_vars
    /\ [][(Len(taskmanager.listas) = 1 /\ log'.key = DELETE) =>
            /\ taskmanager' = taskmanager
            /\ screen_stack'[1].dialog.type = "AlertDialog"]_vars
    /\ [][screen_stack[1].dialog.type = "AlertDialog" => taskmanager' = taskmanager]_vars

\* C35 witness: list 1 was deleted after list 2 had been created, and the
\* removal of list 2, now the only one, was refused
C35_Witness ==
    /\ log.key = "remover_lista_de_tarefas"
    /\ log.index = 2
    /\ log.read = <<FALSE>>
    /\ Len(taskmanager.listas) = 1
    /\ taskmanager.listas[1].id = 2

\* a list was deleted through the confirmation dialog of the list-selection screen
DeletedByDialog ==
    /\ log.key = ENTER
    /\ log.confirms = 1
    /\ Len(taskmanager.listas) = 1
    /\ taskmanager.proximo_id_lista = 3

\* C36: after the object of the selected child was removed and the list
\* repopulated, the selected child is inside the window render shows:
\* scroll_offset <= selected index <= scroll_offset + H - 3 whenever the
\* list has children.  The code does not keep this: see C36_Witness.
C36_SelectionVisibleAfterDelete ==
    [][(log'.key = DELETE /\ Len(screen_stack'[1].w.list_widget.items) >= 1) =>
        LET v == screen_stack'[1].w.list_widget
        IN  /\ v.scroll_offset <= ListFocusIndex(v)
            /\ ListFocusIndex(v) <= v.scroll_offset + v.height - 3]_vars

\* C36 witness: the last of two children was selected and deleted; the
\* window still starts at offset 1, behind the one child that is left, and a
\* render of the list draws no child at all
C36_Witness ==
    /\ log.key = DELETE
    /\ log.index = 1
    /\ Len(screen_stack[1].w.list_widget.items) = 1
    /\ ListFocusIndex(screen_stack[1].w.list_widget) = 0
    /\ screen_stack[1].w.list_widget.scroll_offset = 1
    /\ VerticalList_render(screen_stack[1].w.list_widget).shown = <<>>

\* C37: when save_changes of the edit-task screen has completed, exactly two
\* screens have left the stack, the edit screen and the task-detail screen,
\* and the active screen is the list of tasks the details were opened from.
\* The code does not keep this: see C37_Witness.
C37_SaveChangesReturnsToTaskList ==
    [][((\E i \in 1..Len(log'.calls) : log'.calls[i] = "save_changes") /\ pc' = "running") =>
        /\ Len(screen_stack') = Len(screen_stack) - 2
        /\ current_screen' = Len(screen_stack')
        /\ screen_stack'[Len(screen_stack')].kind \in {"TaskViewScreen", "SearchResultsScreen"}]_vars

\* C37 witness: save_changes was called on the stack of five screens
\* (list selection, filter options, task view, details, edit) and left two:
\* the task view was popped as well and the filter options are active
C37_Witness ==
    /\ pc = "running"
    /\ log.calls = <<"save_changes">>
    /\ Len(log.pops) = 3
    /\ log.pops[2].before = 5
    /\ Len(screen_stack) = 2
    /\ screen_stack[2].kind = "FilterOptionsScreen"
    /\ current_screen = 2

(***************************************************************************)
(* Task identifiers and recurring tasks (SpecTasks).                       *)
(***************************************************************************)
NumTasks(tm) == Len(AllPairs(tm.listas, 1))

\* C38: task identifiers are unique across all lists, and a task that appears
\* (created by criar_tarefa or as the successor of a recurring task) takes an
\* identifier no task has held since the database was loaded, even after the
\* earlier holders were removed.
C38_TaskIdsUniqueNeverReused ==
    /\ [](Cardinality(TaskIds(taskmanager)) = NumTasks(taskmanager))
    /\ [][(TaskIds(taskmanager') \ TaskIds(taskmanager)) \cap log.assigned = {}]_vars

\* a task was created after another one had been removed
C38_Witness ==
    /\ log.key = "criar_tarefa"
    /\ \E id \in log.assigned : id \notin TaskIds(taskmanager)
    /\ taskmanager.proximo_id_tarefa - 1 \in TaskIds(taskmanager)
    /\ Len(taskmanager.listas) = 2

\* the task called tarefa_id in list lista_id, as a one-element set
TaskAt(tm, lista_id, tarefa_id) ==
    LET i == ListaIdx(tm, lista_id)
    IN  IF i = 0 THEN {}
        ELSE {tm.listas[i].tarefas[t] : t \in
                {t \in 1..Len(tm.listas[i].tarefas) : tm.listas[i].tarefas[t].id = tarefa_id}}

\* toggling lista_id/tarefa_id three times from tm creates as many tasks as
\* toggling it once
SecondCompletionCreatesNone(tm, lista_id, tarefa_id) ==
    LET once == toggle_tarefa_concluida(tm, lista_id, tarefa_id)
        thrice == toggle_tarefa_concluida(
                      toggle_tarefa_concluida(once, lista_id, tarefa_id), lista_id, tarefa_id)
    IN  NumTasks(thrice) = NumTasks(once)

\* C39: completing a recurring task creates exactly one successor, appended to
\* the same list with a fresh identifier, not completed and carrying the
\* recurrence, and leaves the completed task without recurrence; toggling a
\* task without recurrence, or reopening one, never changes the number of
\* tasks; and completing, reopening and completing again creates no second
\* successor.
C39_RecurringCompletion ==
    /\ [](\A lista_id \in 1..2, tarefa_id \in 1..MaxNewTaskId :
            \A t \in TaskAt(taskmanager, lista_id, tarefa_id) :
                ~t.concluida => SecondCompletionCreatesNone(taskmanager, lista_id, tarefa_id))
    /\ [][log'.key = "toggle_tarefa_concluida" =>
            \A t \in TaskAt(taskmanager, log'.args[1], log'.args[2]) :
                LET i == ListaIdx(taskmanager, log'.args[1])
                    before == taskmanager.listas[i].tarefas
                    after == taskmanager'.listas[i].tarefas
                IN  IF ~t.concluida /\ t.repeticao # NENHUMA
                    THEN /\ NumTasks(taskmanager') = NumTasks(taskmanager) + 1
                         /\ Len(after) = Len(before) + 1
                         /\ SubSeq(after, 1, Len(before)) =
                                [j \in 1..Len(before) |->
                                    IF before[j].id = t.id
                                    THEN [t EXCEPT !.concluida = TRUE, !.repeticao = NENHUMA]
                                    ELSE before[j]]
                         /\ after[Len(after)] =
                                [t EXCEPT !.id = taskmanager.proximo_id_tarefa]
                         /\ after[Len(after)].id \notin log.assigned
                         /\ \A l \in 1..Len(taskmanager.listas) :
                                l # i => taskmanager'.listas[l] = taskmanager.listas[l]
                    ELSE /\ NumTasks(taskmanager') = NumTasks(taskmanager)
                         /\ TaskIds(taskmanager') = TaskIds(taskmanager)
                         /\ \A u \in TaskAt(taskmanager', log'.args[1], log'.args[2]) :
                                u = [t EXCEPT !.concluida = ~t.concluida]]_vars

\* a recurring task was completed, reopened and completed again: it has one
\* successor, which carries the recurrence
C39_Witness ==
    /\ log.key = "toggle_tarefa_concluida"
    /\ taskmanager.listas[1].tarefas =
            <<[Tarefa(1, <<"a">>, 0, NENHUMA) EXCEPT !.concluida = TRUE],
              Tarefa(2, <<"a">>, 0, DIARIA)>>
    /\ log.assigned = {1, 2}
    /\ log.args = <<1, 1>>

(***************************************************************************)
(* push_screen_stack and its payload (SpecPush).                           *)
(***************************************************************************)
\* the payload is what the branch of screen_type takes: a list, a
\* (task, list) tuple, a dict with the keys the branch reads, a dict or None
\* for FILTER_OPTIONS, anything for the screens built without a payload
PayloadFits(screen_type, data) ==
    CASE screen_type \in {"EDIT_LIST", "CREATETASK"} -> data.type = "ListaDeTarefas"
      [] screen_type \in {"TASK_DETAIL", "EDIT_TASK"} -> data.type = "tuple"
      [] screen_type = "TASK_VIEW" ->
            data.type = "dict" /\ {"filtro_status", "contexto_lista"} \subseteq DOMAIN data.value
      [] screen_type = "SEARCH_RESULTS" ->
            data.type = "dict" /\ "resultados" \in DOMAIN data.value
      [] screen_type = "FILTER_OPTIONS" -> data.type \in {"None", "dict"}
      [] OTHER -> TRUE

\* C40: push_screen_stack with a payload that does not fit the requested
\* kind of screen (EDIT_LIST, CREATETASK, TASK_DETAIL, EDIT_TASK, TASK_VIEW or
\* SEARCH_RESULTS with None, or with a payload of another type) creates no
\* screen and leaves the navigation stack and the active screen unchanged.
C40_MismatchedPayloadPushesNothing ==
    [][(log'.key = "push_screen_stack" /\ ~PayloadFits(log'.args[1], log'.args[2]))
        => screen_stack' = screen_stack /\ current_screen' = current_screen]_vars

\* CREATETASK was requested with None on a stack of two screens, and the
\* application goes on
C40_Witness ==
    /\ log.key = "push_screen_stack"
    /\ log.args = <<"CREATETASK", NoData>>
    /\ ~PayloadFits(log.args[1], log.args[2])
    /\ Len(screen_stack) = 2
    /\ current_screen = 2
    /\ pc = "running"

====
